---------------------------- MODULE Spec2Model ----------------------------
(***************************************************************************)
(* Playlist + Tracks API (src/server.js, the server of lines 1-406): the   *)
(* track store, the playlist store with its embedded entries, and the      *)
(* route handlers that change them.  One action per route handler; a       *)
(* handler's storage failure is an input ("fail" names the storage call    *)
(* that rejects).                                                          *)
(*                                                                         *)
(*   Spec        every route, one request at a time, one playlist          *)
(*   SpecConc    add-track requests of two connections, await by await     *)
(*   SpecTwo     playlist creation, add-track and track deletion with a    *)
(*               second playlist                                           *)
(*   SpecLegacy  the playlist-entry routes of src/unnamed/part_001         *)
(*   SpecVariant the playlist routes of the userId server (lines 407-770)  *)
(*   SpecRead    the read routes next to playlist deletion and re-creation *)
(*   SpecTracks  the track routes with every field of the body             *)
(*   SpecPlay    the playback routes                                       *)
(*   SpecDone    add-track await by await with failing storage calls,      *)
(*               under fairness of the pending calls                       *)
(*   SpecStamp   playlists made from bodies that carry timestamps, then    *)
(*               changed by the entry routes                               *)
(*   SpecRenumber the entry routes of the userId server over two Tracks    *)
(*   SpecDup     add-track and remove-entry with up to three entries       *)
(***************************************************************************)
EXTENDS Integers, Sequences, FiniteSets, TLC

VARIABLES
    tracks,       \* Track collection: ObjectId -> document
    playlists,    \* Playlist collection: ObjectId -> document
    trackSeq,     \* number of Track ObjectIds the server has generated
    playlistSeq,  \* number of Playlist ObjectIds the server has generated
    now,          \* Date.now()
    resp,         \* the last one-step request: route, response, trackId sent
    procs,        \* the add-track requests in flight, one per connection
    playbacks,    \* Playback collection: ObjectId -> document
    playbackSeq,  \* number of Playback ObjectIds the server has generated
    got,          \* the body of the last read (GET) response
    gone          \* history: the ids of the playlists deleted so far

vars ==
    <<tracks, playlists, trackSeq, playlistSeq, now, resp, procs, playbacks, playbackSeq,
      got, gone>>

---------------------------------------------------------------------------
(* Bounds *)

MaxTracks == 1      \* Track ObjectIds the server generates: 1..MaxTracks
MaxPlaylists == 1   \* Playlist ObjectIds the server generates: 1..MaxPlaylists
MaxTime == 1        \* the clock runs 0..MaxTime
MaxEntries == 2     \* add-track requests are issued up to this many entries

---------------------------------------------------------------------------
(* Values *)

NoId == -1          \* the field is absent from the request (undefined)
BadId == -2         \* a string that is no ObjectId
NoVal == -1         \* a Number/Date field that is absent
BadVal == -2        \* a value that does not cast to Number/Date
NoTitle == ""       \* title absent or empty: falsy, and fails `required`
BadTitle == "{}"    \* a title that does not cast to String
NumberAsTitle == "#7"   \* the number 7 sent where a String is declared
NumberString == -3      \* the string "3" sent where a Number is declared
NoMeta == ""        \* metadata absent
EmptyMeta == "{}"   \* metadata: {}

ForeignId == 0      \* a well-formed ObjectId made up by a caller
ServerTrackIds == 1..MaxTracks
TrackIds == {ForeignId} \cup ServerTrackIds
PlaylistIds == 1..MaxPlaylists
Times == 0..MaxTime

\* ObjectIds a caller can name: made up, or handed out by the server so far.
KnownTrackIds == {ForeignId} \cup (1..trackSeq)

(* A track reference as written in a request: the ObjectId it spells, and  *)
(* whether it is spelled as ObjectId.toString() spells it (lowercase hex)  *)
(* or with uppercase hex digits.                                           *)
NoRef == [id |-> NoId, upper |-> FALSE]
BadRef == [id |-> BadId, upper |-> FALSE]
Spellings(ids) == [id : ids, upper : BOOLEAN]

\* A format check that lets every string through.
IsValidObjectIdAny(ref) == TRUE

\* mongoose.Types.ObjectId.isValid: 24 hex digits of either case.
IsValidObjectId(ref) == ref.id \in TrackIds

\* Casting a request string to ObjectId: case-insensitive.
CastId(ref) == ref.id

\* ObjectId.prototype.toString(): lowercase hex.
IdToString(oid) == [id |-> oid, upper |-> FALSE]

---------------------------------------------------------------------------
(* Documents *)

Remove(f, k) == [x \in DOMAIN f \ {k} |-> f[x]]
Put(f, k, v) == [x \in DOMAIN f \cup {k} |-> IF x = k THEN v ELSE f[x]]

\* A validation that looks at the title only.
TrackValidTitleOnly(body) ==
    /\ body.title # NoTitle
    /\ body.title # BadTitle

\* TrackSchema validation on save: title required and a String, duration
\* a Number, _id an ObjectId.
TrackValid(body) ==
    /\ body.title # NoTitle
    /\ body.title # BadTitle
    /\ body.artist # BadTitle
    /\ body.duration # BadVal
    /\ body.id # BadId

\* new Track(req.body): the caller's _id and createdAt when given, else a
\* generated ObjectId and the default Date.now.
NewTrackId(body) == IF body.id # NoId THEN body.id ELSE trackSeq + 1

\* Schema casts: String(7) is "7", Number("3") is 3.
CastString(v) == IF v = NumberAsTitle THEN "7" ELSE v
CastNumber(v) == IF v = NumberString THEN 3 ELSE v

\* The schema option minimize (default true): an empty object is not stored.
Minimize(m) == IF m = EmptyMeta THEN NoMeta ELSE m

NewTrack(body, t) ==
    [title |-> CastString(body.title),
     artist |-> CastString(body.artist),
     duration |-> CastNumber(body.duration),
     metadata |-> Minimize(body.metadata),
     createdAt |-> IF body.createdAt # NoVal THEN body.createdAt ELSE t]

\* The subdocument of PlaylistSchema.tracks built from {trackId, order}.
NewEntry(oid, order, t) == [trackId |-> oid, order |-> order, addedAt |-> t]

(* What is kept of a request: its route, the status and message of the     *)
(* response, and for add-track the trackId its body carried.               *)
Response(op, status, msg, pid, ref, shape) ==
    [op |-> op, status |-> status, msg |-> msg,
     ref |-> IF op = "addTrack" THEN ref ELSE NoRef]


Idle == Response("none", 0, "", NoId, NoRef, "")

\* The storage calls of the handlers; "none": every call returns.
FailPoints ==
    {"none", "findPlaylist", "saveTrack", "findTrack", "savePlaylist", "populate"}

---------------------------------------------------------------------------
(* POST /api/v1/playlists/:id/tracks *)

\* Which of the two input shapes the body has (truthiness of title, trackId).
Shape(body) ==
    IF body.title # NoTitle
    THEN IF body.ref # NoRef THEN "both" ELSE "create"
    ELSE IF body.ref # NoRef THEN "link" ELSE "neither"

\* Playlist.findById(req.params.id): a malformed id is a CastError.
FindPlaylist(pid, fail) ==
    IF pid = BadId \/ fail = "findPlaylist" THEN [status |-> 500, msg |-> "internal"]
    ELSE IF pid \notin DOMAIN playlists
    THEN [status |-> 404, msg |-> "Playlist not found"]
    ELSE [status |-> 0, msg |-> ""]

(* Lines 236-259: the track to link.  status 0: resolved, oid is the       *)
(* ObjectId pushed and str is trackIdToAdd.toString(); trs and seq are the *)
(* track store and the id counter afterwards.                              *)
Resolved(status, msg, trs, seq, oid, str) ==
    [status |-> status, msg |-> msg, tracks |-> trs, seq |-> seq, oid |-> oid,
     str |-> str]

Unresolved(status, msg) == Resolved(status, msg, tracks, trackSeq, NoId, NoRef)

\* A resolution in which a title wins over a trackId sent along with it.
CreateOrFindTrackTitleWins(body, t, fail) ==
    IF body.title # NoTitle THEN
        IF ~TrackValid(body) THEN Unresolved(400, "ValidationError")
        ELSE IF fail = "saveTrack" \/ NewTrackId(body) \in DOMAIN tracks
        THEN Unresolved(500, "internal")
        ELSE Resolved(0, "", Put(tracks, NewTrackId(body), NewTrack(body, t)),
                      IF body.id = NoId THEN trackSeq + 1 ELSE trackSeq,
                      NewTrackId(body), IdToString(NewTrackId(body)))
    ELSE IF body.ref # NoRef THEN
        IF ~IsValidObjectId(body.ref) THEN Unresolved(400, "Invalid trackId")
        ELSE IF fail = "findTrack" THEN Unresolved(500, "internal")
        ELSE IF CastId(body.ref) \notin DOMAIN tracks
        THEN Unresolved(404, "Track not found")
        ELSE Resolved(0, "", tracks, trackSeq, CastId(body.ref), body.ref)
    ELSE Unresolved(400, "Missing")

CreateOrFindTrack(body, t, fail) ==
    IF body.title # NoTitle THEN
        IF body.ref # NoRef THEN Unresolved(400, "both")
        ELSE IF ~TrackValid(body) THEN Unresolved(400, "ValidationError")
        ELSE IF fail = "saveTrack" \/ NewTrackId(body) \in DOMAIN tracks
        THEN Unresolved(500, "internal")
        ELSE Resolved(0, "", Put(tracks, NewTrackId(body), NewTrack(body, t)),
                      IF body.id = NoId THEN trackSeq + 1 ELSE trackSeq,
                      NewTrackId(body), IdToString(NewTrackId(body)))
    ELSE IF body.ref # NoRef THEN
        IF ~IsValidObjectId(body.ref) THEN Unresolved(400, "Invalid trackId")
        ELSE IF fail = "findTrack" THEN Unresolved(500, "internal")
        ELSE IF CastId(body.ref) \notin DOMAIN tracks
        THEN Unresolved(404, "Track not found")
        ELSE Resolved(0, "", tracks, trackSeq, CastId(body.ref), body.ref)
    ELSE Unresolved(400, "Missing")

\* Line 262: playlist.tracks.some(t => t.trackId.toString() === str).
IsDuplicate(entries, str) ==
    \E i \in 1..Len(entries) : IdToString(entries[i].trackId) = str

\* A push that numbers the new entry from 0.
PushEntryZeroBased(doc, oid, t) ==
    [doc EXCEPT !.tracks = Append(@, NewEntry(oid, Len(doc.tracks), t)),
                !.updatedAt = t]

\* Lines 266-272 on the loaded document.
PushEntry(doc, oid, t) ==
    [doc EXCEPT !.tracks = Append(@, NewEntry(oid, Len(doc.tracks) + 1, t)),
                !.updatedAt = t]

\* A save that writes the whole loaded document over the stored one.
SavePushedWhole(pls, pid, doc, loaded) == [pls EXCEPT ![pid] = doc]

(* Line 273, playlist.save() after a push: the pushed entries (those of    *)
(* doc beyond the `loaded` ones) are appended to the stored array and      *)
(* updatedAt is set.                                                       *)
SavePushed(pls, pid, doc, loaded) ==
    [pls EXCEPT ![pid].tracks = @ \o SubSeq(doc.tracks, loaded + 1, Len(doc.tracks)),
                ![pid].updatedAt = doc.updatedAt]

\* An outcome that numbers the new entry after the stored entries instead
\* of the loaded ones.
LinkOutcomeStoredCount(doc, pid, r, t, fail) ==
    IF IsDuplicate(doc.tracks, r.str)
    THEN [status |-> 400, msg |-> "already exists", playlists |-> playlists]
    ELSE IF fail = "savePlaylist" \/ pid \notin DOMAIN playlists
    THEN [status |-> 500, msg |-> "internal", playlists |-> playlists]
    ELSE [status |-> 201, msg |-> "linked",
          playlists |-> SavePushed(playlists, pid,
                                   PushEntry(playlists[pid], r.oid, t),
                                   Len(playlists[pid].tracks))]

\* Lines 261-275 and the catch: duplicate check, push, save, response.
LinkOutcome(doc, pid, r, t, fail) ==
    IF IsDuplicate(doc.tracks, r.str)
    THEN [status |-> 400, msg |-> "already exists", playlists |-> playlists]
    ELSE IF fail = "savePlaylist" \/ pid \notin DOMAIN playlists
    THEN [status |-> 500, msg |-> "internal", playlists |-> playlists]
    ELSE [status |-> 201, msg |-> "linked",
          playlists |-> SavePushed(playlists, pid, PushEntry(doc, r.oid, t),
                                   Len(doc.tracks))]

AddBodies ==
    [title : {"A"}, ref : {NoRef}, duration : {NoVal, BadVal},
     createdAt : {NoVal}, artist : {NoTitle}, metadata : {NoMeta},
     id : {NoId, ForeignId}]
    \cup [title : {BadTitle}, ref : {NoRef}, duration : {NoVal},
          createdAt : {NoVal}, artist : {NoTitle}, metadata : {NoMeta},
          id : {NoId}]
    \cup [title : {NoTitle}, ref : {NoRef, BadRef} \cup Spellings(KnownTrackIds),
          duration : {NoVal}, createdAt : {NoVal}, artist : {NoTitle},
          metadata : {NoMeta}, id : {NoId}]
    \cup [title : {"A"}, ref : {BadRef, IdToString(ForeignId)}, duration : {NoVal},
          createdAt : {NoVal}, artist : {NoTitle}, metadata : {NoMeta},
          id : {NoId}]

\* A handler that resolves the track before it looks the playlist up.
AddTrackResolvesFirst(pid, body, fail) ==
    LET f == FindPlaylist(pid, fail)
        r == CreateOrFindTrack(body, now, fail)
        l == LinkOutcome(playlists[pid], pid, r, now, fail)
    IN  /\ IF r.status # 0 THEN
               /\ resp' = Response("addTrack", r.status, r.msg, pid, body.ref, Shape(body))
               /\ UNCHANGED <<tracks, playlists, trackSeq>>
           ELSE IF f.status # 0 THEN
               /\ resp' = Response("addTrack", f.status, f.msg, pid, body.ref, Shape(body))
               /\ tracks' = r.tracks
               /\ trackSeq' = r.seq
               /\ UNCHANGED playlists
           ELSE
               /\ resp' = Response("addTrack", l.status, l.msg, pid, body.ref, Shape(body))
               /\ tracks' = r.tracks
               /\ trackSeq' = r.seq
               /\ playlists' = l.playlists
        /\ UNCHANGED <<playlistSeq, now, procs, playbacks, playbackSeq, got, gone>>

\* POST /api/v1/playlists/:id/tracks
AddTrack(pid, body, fail) ==
    LET f == FindPlaylist(pid, fail)
        r == CreateOrFindTrack(body, now, fail)
        l == LinkOutcome(playlists[pid], pid, r, now, fail)
    IN  /\ IF f.status # 0 THEN
               /\ resp' = Response("addTrack", f.status, f.msg, pid, body.ref, Shape(body))
               /\ UNCHANGED <<tracks, playlists, trackSeq>>
           ELSE IF r.status # 0 THEN
               /\ resp' = Response("addTrack", r.status, r.msg, pid, body.ref, Shape(body))
               /\ UNCHANGED <<tracks, playlists, trackSeq>>
           ELSE
               /\ resp' = Response("addTrack", l.status, l.msg, pid, body.ref, Shape(body))
               /\ tracks' = r.tracks
               /\ trackSeq' = r.seq
               /\ playlists' = l.playlists
        /\ UNCHANGED <<playlistSeq, now, procs, playbacks, playbackSeq, got, gone>>

---------------------------------------------------------------------------
(* PUT and DELETE /api/v1/playlists/:id/tracks/:trackId *)

\* Array.prototype.find / filter with t.trackId.toString() === req.params.trackId
Matches(entry, ref) == IdToString(entry.trackId) = ref

FindIndex(entries, ref) ==
    IF \E i \in 1..Len(entries) : Matches(entries[i], ref)
    THEN CHOOSE i \in 1..Len(entries) :
            /\ Matches(entries[i], ref)
            /\ \A j \in 1..(i - 1) : ~Matches(entries[j], ref)
    ELSE 0

\* Lines 296-300: only order and addedAt are copied from the body.
AssignEntry(entry, body) ==
    [entry EXCEPT !.order = IF body.order # NoVal THEN body.order ELSE @,
                  !.addedAt = IF body.addedAt # NoVal THEN body.addedAt ELSE @]

EntryBodies ==
    [order : {NoVal, 1, 2, BadVal}, addedAt : {NoVal}]
    \cup [order : {NoVal, 1}, addedAt : {0}]

UpdateEntry(pid, ref, body, fail) ==
    LET f == FindPlaylist(pid, fail)
        doc == playlists[pid]
        i == FindIndex(doc.tracks, ref)
        item == AssignEntry(doc.tracks[i], body)
    IN  /\ UNCHANGED <<tracks, trackSeq, playlistSeq, now, procs,
                       playbacks, playbackSeq, got, gone>>
        /\ IF f.status # 0 THEN
               /\ resp' = Response("updateEntry", IF f.status = 500 THEN 400 ELSE 404,
                                   f.msg, pid, ref, "")
               /\ UNCHANGED playlists
           ELSE IF i = 0 THEN
               /\ resp' = Response("updateEntry", 404, "Track not found in playlist",
                                   pid, ref, "")
               /\ UNCHANGED playlists
           ELSE IF item.order = BadVal \/ fail = "savePlaylist" THEN
               /\ resp' = Response("updateEntry", 400, "save failed", pid, ref, "")
               /\ UNCHANGED playlists
           ELSE
               /\ playlists' = [playlists EXCEPT ![pid].tracks[i] = item,
                                                 ![pid].updatedAt = now]
               /\ resp' = IF fail = "populate"
                          THEN Response("updateEntry", 400, "populate failed", pid, ref, "")
                          ELSE Response("updateEntry", 200, "updated", pid, ref, "")

\* A filter with the test the wrong way round: the matching entries stay.
FilterOutKeepsMatches(entries, ref) == SelectSeq(entries, LAMBDA e : Matches(e, ref))

\* A filter that drops the first matching entry only.
FilterOutFirstOnly(entries, ref) ==
    LET i == FindIndex(entries, ref)
    IN  IF i = 0 THEN entries
        ELSE SubSeq(entries, 1, i - 1) \o SubSeq(entries, i + 1, Len(entries))

\* Line 323: the entries that stay.
FilterOut(entries, ref) == SelectSeq(entries, LAMBDA e : ~Matches(e, ref))

\* A removal that numbers the entries that stay from 1.
RemoveEntryRenumbering(pid, ref, fail) ==
    LET f == FindPlaylist(pid, fail)
        doc == playlists[pid]
        kept == FilterOut(doc.tracks, ref)
    IN  /\ UNCHANGED <<tracks, trackSeq, playlistSeq, now, procs,
                       playbacks, playbackSeq, got, gone>>
        /\ IF f.status # 0 THEN
               /\ resp' = Response("removeEntry", f.status, f.msg, pid, ref, "")
               /\ UNCHANGED playlists
           ELSE IF Len(kept) = Len(doc.tracks) THEN
               /\ resp' = Response("removeEntry", 404, "Track not found in playlist",
                                   pid, ref, "")
               /\ UNCHANGED playlists
           ELSE IF fail = "savePlaylist" THEN
               /\ resp' = Response("removeEntry", 500, "internal", pid, ref, "")
               /\ UNCHANGED playlists
           ELSE
               /\ playlists' = [playlists EXCEPT
                     ![pid].tracks = [i \in 1..Len(kept) |-> [kept[i] EXCEPT !.order = i]],
                     ![pid].updatedAt = now]
               /\ resp' = Response("removeEntry", 200, "removed", pid, ref, "")

\* DELETE /api/v1/playlists/:id/tracks/:trackId
RemoveEntry(pid, ref, fail) ==
    LET f == FindPlaylist(pid, fail)
        doc == playlists[pid]
        kept == FilterOut(doc.tracks, ref)
    IN  /\ UNCHANGED <<tracks, trackSeq, playlistSeq, now, procs,
                       playbacks, playbackSeq, got, gone>>
        /\ IF f.status # 0 THEN
               /\ resp' = Response("removeEntry", f.status, f.msg, pid, ref, "")
               /\ UNCHANGED playlists
           ELSE IF Len(kept) = Len(doc.tracks) THEN
               /\ resp' = Response("removeEntry", 404, "Track not found in playlist",
                                   pid, ref, "")
               /\ UNCHANGED playlists
           ELSE IF fail = "savePlaylist" THEN
               /\ resp' = Response("removeEntry", 500, "internal", pid, ref, "")
               /\ UNCHANGED playlists
           ELSE
               /\ playlists' = [playlists EXCEPT ![pid].tracks = kept,
                                                 ![pid].updatedAt = now]
               /\ resp' = Response("removeEntry", 200, "removed", pid, ref, "")

---------------------------------------------------------------------------
(* /api/v1/tracks *)

TrackBodies ==
    [title : {NoTitle, "A", BadTitle}, ref : {NoRef}, duration : {NoVal},
     createdAt : {NoVal}, artist : {NoTitle}, metadata : {NoMeta},
     id : {NoId, ForeignId}]
    \cup [title : {"A"}, ref : {NoRef}, duration : {BadVal}, createdAt : {NoVal},
          artist : {NoTitle}, metadata : {NoMeta}, id : {NoId}]

\* POST /api/v1/tracks
CreateTrack(body, fail) ==
    /\ UNCHANGED <<playlists, playlistSeq, now, procs, playbacks, playbackSeq, got, gone>>
    /\ IF ~TrackValid(body) \/ fail = "saveTrack" \/ NewTrackId(body) \in DOMAIN tracks
       THEN /\ resp' = Response("createTrack", 400, "save failed", NoId, NoRef, "")
            /\ UNCHANGED <<tracks, trackSeq>>
       ELSE /\ tracks' = Put(tracks, NewTrackId(body), NewTrack(body, now))
            /\ trackSeq' = IF body.id = NoId THEN trackSeq + 1 ELSE trackSeq
            /\ resp' = Response("createTrack", 201, "created", NoId,
                                IdToString(NewTrackId(body)), "")

\* findByIdAndUpdate(id, req.body): the fields the body carries are set.
SetTrackFields(doc, body) ==
    [title |-> IF body.title # NoTitle THEN CastString(body.title) ELSE doc.title,
     artist |-> IF body.artist # NoTitle THEN CastString(body.artist) ELSE doc.artist,
     duration |-> IF body.duration # NoVal THEN CastNumber(body.duration) ELSE doc.duration,
     metadata |-> IF body.metadata # NoMeta THEN body.metadata ELSE doc.metadata,
     createdAt |-> IF body.createdAt # NoVal THEN body.createdAt ELSE doc.createdAt]

TrackUpdateBodies ==
    [title : {NoTitle, BadTitle}, ref : {NoRef}, duration : {NoVal},
     createdAt : {NoVal}, artist : {NoTitle}, metadata : {NoMeta},
     id : {NoId}]
    \cup [title : {NoTitle}, ref : {NoRef}, duration : {BadVal}, createdAt : {NoVal},
          artist : {NoTitle}, metadata : {NoMeta}, id : {NoId}]

\* PUT /api/v1/tracks/:id
UpdateTrack(ref, body, fail) ==
    /\ UNCHANGED <<playlists, trackSeq, playlistSeq, now, procs,
                   playbacks, playbackSeq, got, gone>>
    /\ IF ~IsValidObjectId(ref) \/ body.title = BadTitle \/ body.duration = BadVal
          \/ fail = "saveTrack"
       THEN /\ resp' = Response("updateTrack", 400, "update failed", NoId, ref, "")
            /\ UNCHANGED tracks
       ELSE IF CastId(ref) \notin DOMAIN tracks
       THEN /\ resp' = Response("updateTrack", 404, "Track not found", NoId, ref, "")
            /\ UNCHANGED tracks
       ELSE /\ tracks' = [tracks EXCEPT ![CastId(ref)] = SetTrackFields(@, body)]
            /\ resp' = Response("updateTrack", 200, "updated", NoId, ref, "")

\* A delete that also drops the playlist entries referencing the Track.
DeleteTrackCascading(ref, fail) ==
    /\ UNCHANGED <<trackSeq, playlistSeq, now, procs, playbacks, playbackSeq, got, gone>>
    /\ IF ~IsValidObjectId(ref) \/ fail = "saveTrack"
       THEN /\ resp' = Response("deleteTrack", 500, "internal", NoId, ref, "")
            /\ UNCHANGED <<tracks, playlists>>
       ELSE IF CastId(ref) \notin DOMAIN tracks
       THEN /\ resp' = Response("deleteTrack", 404, "Track not found", NoId, ref, "")
            /\ UNCHANGED <<tracks, playlists>>
       ELSE /\ tracks' = Remove(tracks, CastId(ref))
            /\ playlists' = [p \in DOMAIN playlists |->
                                [playlists[p] EXCEPT !.tracks = FilterOut(@, ref)]]
            /\ resp' = Response("deleteTrack", 200, "Track deleted", NoId, ref, "")

\* DELETE /api/v1/tracks/:id
DeleteTrack(ref, fail) ==
    /\ UNCHANGED <<playlists, trackSeq, playlistSeq, now, procs,
                   playbacks, playbackSeq, got, gone>>
    /\ IF ~IsValidObjectId(ref) \/ fail = "saveTrack"
       THEN /\ resp' = Response("deleteTrack", 500, "internal", NoId, ref, "")
            /\ UNCHANGED tracks
       ELSE IF CastId(ref) \notin DOMAIN tracks
       THEN /\ resp' = Response("deleteTrack", 404, "Track not found", NoId, ref, "")
            /\ UNCHANGED tracks
       ELSE /\ tracks' = Remove(tracks, CastId(ref))
            /\ resp' = Response("deleteTrack", 200, "Track deleted", NoId, ref, "")

---------------------------------------------------------------------------
(* /api/v1/playlists *)

NoName == ""        \* name absent
NoList == <<[trackId |-> NoId, order |-> NoVal]>>   \* tracks absent from the body

\* The tracks arrays callers send: up to two {trackId, order} items.
BodyItems(orders) == [trackId : KnownTrackIds, order : orders]
BodyLists(orders) ==
    {<<>>} \cup {<<a>> : a \in BodyItems(orders)}
           \cup {<<a, b>> : a \in BodyItems(orders), b \in BodyItems(orders)}

PlaylistBodies ==
    [name : {NoName, "N"}, tracks : {NoList}, updatedAt : {NoVal}, id : {NoId}]
    \cup [name : {"N"}, tracks : BodyLists({1}),
          updatedAt : {NoVal}, id : {NoId}]

\* Bodies that carry an _id: one the server handed out before, or none.
PlaylistIdBodies ==
    [name : {"N"}, tracks : {NoList}, updatedAt : {NoVal},
     id : {NoId, BadId} \cup (1..playlistSeq)]

\* new Playlist(req.body)._id: the caller's _id when given, else generated.
NewPlaylistId(body) == IF body.id # NoId THEN body.id ELSE playlistSeq + 1

\* A cast that numbers the entries by their position.
CastEntriesNumbered(list, t) ==
    IF list = NoList THEN <<>>
    ELSE [i \in 1..Len(list) |-> NewEntry(list[i].trackId, i, t)]

\* Casting a body's tracks array to subdocuments: addedAt defaults to now.
CastEntries(list, t) ==
    IF list = NoList THEN <<>>
    ELSE [i \in 1..Len(list) |-> NewEntry(list[i].trackId, list[i].order, t)]

\* new Playlist(req.body)
NewPlaylist(body, t) ==
    [name |-> body.name,
     tracks |-> CastEntries(body.tracks, t),
     createdAt |-> IF "createdAt" \in DOMAIN body /\ body.createdAt # NoVal
                   THEN body.createdAt ELSE t,
     updatedAt |-> IF body.updatedAt # NoVal THEN body.updatedAt ELSE t]

\* POST /api/v1/playlists
CreatePlaylist(body, fail) ==
    /\ UNCHANGED <<tracks, trackSeq, now, procs, playbacks, playbackSeq, got, gone>>
    /\ IF \/ body.name = NoName \/ fail = "savePlaylist"
          \/ body.id = BadId \/ NewPlaylistId(body) \in DOMAIN playlists
       THEN /\ resp' = Response("createPlaylist", 400, "save failed", NoId, NoRef, "")
            /\ UNCHANGED <<playlists, playlistSeq>>
       ELSE /\ playlists' = Put(playlists, NewPlaylistId(body), NewPlaylist(body, now))
            /\ playlistSeq' = IF body.id = NoId THEN playlistSeq + 1 ELSE playlistSeq
            /\ resp' = Response("createPlaylist", 201, "created", NewPlaylistId(body),
                                NoRef, "")

\* findByIdAndUpdate(id, req.body): the fields the body carries are set.
SetPlaylistFields(doc, body, t) ==
    [name |-> IF body.name # NoName THEN body.name ELSE doc.name,
     tracks |-> IF body.tracks # NoList THEN CastEntries(body.tracks, t) ELSE doc.tracks,
     createdAt |-> IF "createdAt" \in DOMAIN body /\ body.createdAt # NoVal
                   THEN body.createdAt ELSE doc.createdAt,
     updatedAt |-> IF body.updatedAt # NoVal THEN body.updatedAt ELSE doc.updatedAt]

PlaylistUpdateBodies ==
    [name : {NoName}, tracks : {NoList}, updatedAt : {NoVal, 0}]
    \cup [name : {NoName}, tracks : BodyLists({1}),
          updatedAt : {NoVal}]

\* PUT /api/v1/playlists/:id
UpdatePlaylist(pid, body, fail) ==
    LET f == FindPlaylist(pid, fail)
    IN  /\ UNCHANGED <<tracks, trackSeq, playlistSeq, now, procs,
                       playbacks, playbackSeq, got, gone>>
        /\ IF f.status # 0
           THEN /\ resp' = Response("updatePlaylist", IF f.status = 500 THEN 400 ELSE 404,
                                    f.msg, pid, NoRef, "")
                /\ UNCHANGED playlists
           ELSE /\ playlists' = [playlists EXCEPT ![pid] = SetPlaylistFields(@, body, now)]
                /\ resp' = Response("updatePlaylist", 200, "updated", pid, NoRef, "")

\* DELETE /api/v1/playlists/:id
DeletePlaylist(pid, fail) ==
    LET f == FindPlaylist(pid, fail)
    IN  /\ UNCHANGED <<tracks, trackSeq, playlistSeq, now, procs,
                       playbacks, playbackSeq, got>>
        /\ resp' = Response("deletePlaylist", IF f.status = 0 THEN 200 ELSE f.status,
                            f.msg, pid, NoRef, "")
        /\ playlists' = IF f.status = 0 THEN Remove(playlists, pid) ELSE playlists
        /\ gone' = IF f.status = 0 THEN gone \cup {pid} ELSE gone

---------------------------------------------------------------------------
(* POST /api/v1/playlists/:id/tracks, await by await.  A connection's      *)
(* handler runs up to its next await in one step: it loads the playlist    *)
(* (line 229), resolves the track (lines 236-259), then checks, pushes and *)
(* saves (lines 262-273) on the document it loaded.                        *)

Conns == {"c1", "c2"}

NoDoc == [name |-> NoName, tracks |-> <<>>, createdAt |-> 0, updatedAt |-> 0]

Proc(pc, pid, body, doc, oid, str, status) ==
    [pc |-> pc, pid |-> pid, body |-> body, doc |-> doc, oid |-> oid, str |-> str,
     status |-> status]

IdleProc ==
    Proc("idle", NoId,
         [title |-> NoTitle, ref |-> NoRef, duration |-> NoVal, createdAt |-> NoVal,
          artist |-> NoTitle, metadata |-> NoMeta,
          id |-> NoId],
         NoDoc, NoId, NoRef, 0)

\* const playlist = await Playlist.findById(req.params.id)
LoadPlaylist(c, pid, body, fail) ==
    LET f == FindPlaylist(pid, fail)
    IN  /\ procs[c].pc = "idle"
        /\ procs' = [procs EXCEPT ![c] =
              IF f.status # 0
              THEN Proc("done", pid, body, NoDoc, NoId, NoRef, f.status)
              ELSE Proc("loaded", pid, body, playlists[pid], NoId, NoRef, 0)]
        /\ UNCHANGED <<tracks, playlists, trackSeq, playlistSeq, now,
                       resp, playbacks, playbackSeq, got, gone>>

\* await newTrack.save() / await Track.findById(trackIdToAdd)
ResolveTrack(c, fail) ==
    LET me == procs[c]
        r == CreateOrFindTrack(me.body, now, fail)
    IN  /\ me.pc = "loaded"
        /\ tracks' = r.tracks
        /\ trackSeq' = r.seq
        /\ procs' = [procs EXCEPT ![c] =
              IF r.status # 0
              THEN [me EXCEPT !.pc = "done", !.status = r.status]
              ELSE [me EXCEPT !.pc = "resolved", !.oid = r.oid, !.str = r.str]]
        /\ UNCHANGED <<playlists, playlistSeq, now, resp, playbacks, playbackSeq, got, gone>>

\* A handler that looks the Track up once more before it saves.
LinkTrackRechecking(c, fail) ==
    LET me == procs[c]
        l == LinkOutcome(me.doc, me.pid, [oid |-> me.oid, str |-> me.str], now, fail)
    IN  /\ me.pc = "resolved"
        /\ playlists' = IF me.oid \in DOMAIN tracks THEN l.playlists ELSE playlists
        /\ procs' = [procs EXCEPT ![c] =
              [me EXCEPT !.pc = "done",
                         !.status = IF me.oid \in DOMAIN tracks THEN l.status ELSE 404]]
        /\ UNCHANGED <<tracks, trackSeq, playlistSeq, now, resp,
                       playbacks, playbackSeq, got, gone>>

\* A handler whose catch block answers 500 and then carries on.
LinkTrackNoReturn(c, fail) ==
    LET me == procs[c]
        l == LinkOutcome(me.doc, me.pid, [oid |-> me.oid, str |-> me.str], now, fail)
    IN  /\ me.pc = "resolved"
        /\ playlists' = l.playlists
        /\ procs' = [procs EXCEPT ![c] =
              IF l.status = 500 THEN [me EXCEPT !.status = 500]
              ELSE [me EXCEPT !.pc = "done", !.status = l.status]]
        /\ UNCHANGED <<tracks, trackSeq, playlistSeq, now, resp,
                       playbacks, playbackSeq, got, gone>>

\* duplicate check, push, await playlist.save(), response
LinkTrack(c, fail) ==
    LET me == procs[c]
        l == LinkOutcome(me.doc, me.pid, [oid |-> me.oid, str |-> me.str], now, fail)
    IN  /\ me.pc = "resolved"
        /\ playlists' = l.playlists
        /\ procs' = [procs EXCEPT ![c] = [me EXCEPT !.pc = "done", !.status = l.status]]
        /\ UNCHANGED <<tracks, trackSeq, playlistSeq, now, resp,
                       playbacks, playbackSeq, got, gone>>

---------------------------------------------------------------------------
(* The server, one request at a time *)

\* Time passes between requests.
Tick ==
    /\ now < MaxTime
    /\ now' = now + 1
    /\ UNCHANGED <<tracks, playlists, trackSeq, playlistSeq, resp,
                   procs, playbacks, playbackSeq, got, gone>>

Init ==
    /\ tracks = <<>>
    /\ playlists = <<>>
    /\ trackSeq = 0
    /\ playlistSeq = 0
    /\ now = 0
    /\ resp = Idle
    /\ procs = [c \in Conns |-> IdleProc]
    /\ playbacks = <<>>
    /\ playbackSeq = 0
    /\ got = <<>>
    /\ gone = {}

RefArgs == Spellings(KnownTrackIds) \cup {BadRef}
KnownRefs == Spellings(KnownTrackIds)
LowerRefs == {IdToString(i) : i \in KnownTrackIds}
PidArgs == PlaylistIds \cup {BadId}

(* The requests issued.  A storage failure is injected into requests that  *)
(* would otherwise reach the failing call; a malformed playlist id is sent *)
(* with one body per route.                                                *)
AddRequests ==
    (PlaylistIds \X AddBodies \X {"none"})
    \cup (PlaylistIds \X {b \in AddBodies : TrackValid(b) /\ b.ref = NoRef}
                      \X {"saveTrack", "savePlaylist"})
    \cup (PlaylistIds \X {b \in AddBodies : b.title = NoTitle /\ b.ref \in KnownRefs}
                      \X {"findTrack", "savePlaylist"})
    \cup (PidArgs \X {b \in AddBodies : b.title = NoTitle /\ b.ref = NoRef}
                  \X {"none", "findPlaylist"})

EntryRequests ==
    (PlaylistIds \X RefArgs \X EntryBodies \X {"none"})
    \cup (PlaylistIds \X {IdToString(ForeignId)} \X {b \in EntryBodies : b.order = 1}
                      \X {"savePlaylist", "populate"})
    \cup (PidArgs \X {BadRef} \X {b \in EntryBodies : b.order = 1}
                  \X {"none", "findPlaylist"})

RemoveRequests ==
    (PlaylistIds \X RefArgs \X {"none"})
    \cup (PlaylistIds \X {IdToString(ForeignId)} \X {"savePlaylist"})
    \cup (PidArgs \X {BadRef} \X {"none", "findPlaylist"})

\* The bounds on what the requests may build.
WithinBounds ==
    /\ trackSeq' <= MaxTracks
    /\ playlistSeq' <= MaxPlaylists
    /\ \A p \in DOMAIN playlists' : Len(playlists'[p].tracks) <= MaxEntries

(* An error response is taken note of before the next request is sent.     *)
Ack ==
    /\ resp.status >= 400
    /\ resp' = Idle
    /\ UNCHANGED <<tracks, playlists, trackSeq, playlistSeq, now,
                   procs, playbacks, playbackSeq, got, gone>>

Ready == resp.status < 400

Next ==
    \/ Ack
    \/ Ready /\ Tick
    \/ Ready /\ \E b \in TrackBodies : CreateTrack(b, "none") /\ WithinBounds
    \/ Ready /\ \E b \in {x \in TrackBodies : TrackValid(x)} : CreateTrack(b, "saveTrack")
    \/ Ready /\ \E r \in LowerRefs \cup {BadRef}, b \in TrackUpdateBodies :
          UpdateTrack(r, b, "none")
    \/ Ready /\ \E r \in RefArgs : DeleteTrack(r, "none")
    \/ Ready /\ \E r \in LowerRefs : DeleteTrack(r, "saveTrack")
    \/ Ready /\ \E b \in PlaylistBodies : CreatePlaylist(b, "none") /\ WithinBounds
    \/ Ready /\ \E b \in {x \in PlaylistBodies : x.tracks = NoList} :
          CreatePlaylist(b, "savePlaylist")
    \/ Ready /\ \E p \in PlaylistIds, b \in PlaylistUpdateBodies :
          UpdatePlaylist(p, b, "none")
    \/ Ready /\ \E b \in {x \in PlaylistUpdateBodies : x.tracks = NoList} :
          UpdatePlaylist(BadId, b, "none")
    \/ Ready /\ \E p \in PidArgs, f \in {"none", "findPlaylist"} : DeletePlaylist(p, f)
    \/ Ready /\ \E q \in AddRequests : AddTrack(q[1], q[2], q[3]) /\ WithinBounds
    \/ Ready /\ \E q \in EntryRequests : UpdateEntry(q[1], q[2], q[3], q[4])
    \/ Ready /\ \E q \in RemoveRequests : RemoveEntry(q[1], q[2], q[3])

Spec == Init /\ [][Next]_vars

---------------------------------------------------------------------------
(* Properties of the one-request-at-a-time server *)

\* The step is a request to route `op` (Tick alone moves the clock).
Served(op) == now' = now /\ resp'.op = op

Count(entries, oid) == Cardinality({i \in 1..Len(entries) : entries[i].trackId = oid})

\* The body of a link-existing, of an ambiguous and of an empty add-track.
LinkBody(ref) ==
    [title |-> NoTitle, ref |-> ref, duration |-> NoVal, createdAt |-> NoVal,
          artist |-> NoTitle, metadata |-> NoMeta,
     id |-> NoId]
BothBody(ref) == [LinkBody(ref) EXCEPT !.title = "A"]
NeitherBody == LinkBody(NoRef)

(* C1: a link-existing add-track that directly follows a successful        *)
(* add-track of the same playlist with the same trackId finds exactly one  *)
(* entry for that track, answers 400 'already exists' and leaves the       *)
(* playlists as they are.                                                  *)
C1_SecondAddIsRefused ==
    [][\A p \in DOMAIN playlists :
          (/\ Served("addTrack")
           /\ resp.op = "addTrack" /\ resp.status = 201 /\ resp.ref # NoRef
           /\ Len(playlists[p].tracks) > 0
           /\ playlists[p].tracks[Len(playlists[p].tracks)].trackId = CastId(resp.ref)
           /\ AddTrack(p, LinkBody(resp.ref), "none"))
          => /\ Count(playlists[p].tracks, CastId(resp.ref)) = 1
             /\ resp'.status = 400
             /\ resp'.msg = "already exists"
             /\ playlists' = playlists]_vars

(* C2: no playlist holds two entries with the same track reference.        *)
C2_NoDuplicateEntries ==
    \A p \in DOMAIN playlists :
        \A i, j \in 1..Len(playlists[p].tracks) :
            i # j => playlists[p].tracks[i].trackId # playlists[p].tracks[j].trackId

DistinctOrders(entries) ==
    \A i, j \in 1..Len(entries) : i # j => entries[i].order # entries[j].order

EntryRoutes == {"addTrack", "updateEntry", "removeEntry"}

(* C3: an add-track, update-entry or remove-entry on a playlist whose      *)
(* order values are pairwise distinct leaves them pairwise distinct.       *)
C3_OrdersStayDistinct ==
    [][\A p \in DOMAIN playlists \cap DOMAIN playlists' :
          (/\ now' = now
           /\ resp'.op \in EntryRoutes
           /\ DistinctOrders(playlists[p].tracks))
          => DistinctOrders(playlists'[p].tracks)]_vars

(* C5: a successful add-track on a playlist of n entries leaves n+1        *)
(* entries: the first n as they were, the last one referencing the         *)
(* resolved track (the one named, or the one just created) with order n+1  *)
(* and added now, and the playlist's updatedAt is now.                     *)
C5_AddAppends ==
    [][Served("addTrack") /\ resp'.status = 201
        => \E p \in DOMAIN playlists \cap DOMAIN playlists' :
              LET old == playlists[p].tracks
                  new == playlists'[p].tracks
                  last == new[Len(new)]
              IN  /\ Len(new) = Len(old) + 1
                  /\ SubSeq(new, 1, Len(old)) = old
                  /\ last.order = Len(old) + 1
                  /\ last.addedAt = now
                  /\ last.trackId \in DOMAIN tracks'
                  /\ IF resp'.ref # NoRef
                     THEN last.trackId = CastId(resp'.ref) /\ tracks' = tracks
                     ELSE last.trackId \notin DOMAIN tracks
                  /\ playlists'[p].updatedAt = now
                  /\ \A o \in DOMAIN playlists \ {p} :
                        o \in DOMAIN playlists' /\ playlists'[o] = playlists[o]]_vars

C5_Witness ==
    /\ resp.op = "addTrack" /\ resp.status = 201 /\ resp.ref # NoRef
    /\ \E p \in DOMAIN playlists :
          /\ Len(playlists[p].tracks) = 2
          /\ playlists[p].tracks[2].trackId = CastId(resp.ref)
          /\ playlists[p].tracks[2].order = 2
          /\ playlists[p].updatedAt = now /\ now > 0

(* C6: add-track on an existing playlist with both a title and a trackId,  *)
(* or with neither, answers 400, creates no Track and changes no playlist. *)
C6_OneShapeOnly ==
    [][\A p \in DOMAIN playlists :
          (/\ Served("addTrack")
           /\ \/ AddTrack(p, NeitherBody, "none")
              \/ resp'.ref # NoRef /\ AddTrack(p, BothBody(resp'.ref), "none"))
          => /\ resp'.status = 400
             /\ tracks' = tracks
             /\ trackSeq' = trackSeq
             /\ playlists' = playlists]_vars

C6_Witness ==
    /\ resp.op = "addTrack" /\ resp.status = 400 /\ resp.msg = "both"
    /\ \E p \in DOMAIN playlists : Len(playlists[p].tracks) > 0
    /\ DOMAIN tracks # {}

(* C7: link-existing add-track on an existing playlist answers 400 to a    *)
(* malformed trackId and 404 to a well-formed one that names no Track, and *)
(* changes neither the playlists nor the tracks.                           *)
C7_LinkChecksReference ==
    [][\A p \in DOMAIN playlists :
          (/\ Served("addTrack")
           /\ resp'.ref # NoRef
           /\ resp'.ref = BadRef \/ resp'.ref.id \notin DOMAIN tracks
           /\ AddTrack(p, LinkBody(resp'.ref), "none"))
          => /\ resp'.status = IF resp'.ref = BadRef THEN 400 ELSE 404
             /\ tracks' = tracks
             /\ playlists' = playlists]_vars

C7_Witness ==
    /\ resp.op = "addTrack" /\ resp.status = 404 /\ resp.msg = "Track not found"
    /\ resp.ref.id \in TrackIds /\ resp.ref.id \notin DOMAIN tracks
    /\ \E p \in DOMAIN playlists : Len(playlists[p].tracks) > 0

\* Create-and-link bodies whose Track fails validation.
InvalidCreateBodies ==
    {b \in AddBodies : /\ b.title # NoTitle /\ b.ref = NoRef
                       /\ b.title = BadTitle \/ b.duration = BadVal}

(* C8: create-and-link add-track on an existing playlist whose new Track   *)
(* fails validation answers 400, stores no Track and changes no playlist.  *)
C8_InvalidTrackLinksNothing ==
    [][\A p \in DOMAIN playlists :
          (/\ Served("addTrack")
           /\ resp'.ref = NoRef
           /\ \E b \in InvalidCreateBodies : AddTrack(p, b, "none"))
          => /\ resp'.status = 400
             /\ tracks' = tracks
             /\ trackSeq' = trackSeq
             /\ playlists' = playlists]_vars

C8_Witness ==
    /\ resp.op = "addTrack" /\ resp.status = 400 /\ resp.msg = "ValidationError"
    /\ \E p \in DOMAIN playlists : Len(playlists[p].tracks) > 0

---------------------------------------------------------------------------
(* The server with add-track requests of two connections interleaving *)

\* The bodies the two connections send: link a track, or create one.
ConcBodies ==
    {b \in AddBodies : /\ b.duration = NoVal /\ b.id = NoId /\ b.title # BadTitle
                       /\ b.title = NoTitle => b.ref \in KnownRefs
                       /\ b.title # NoTitle => b.ref = NoRef}

NextConc ==
    \/ Tick
    \/ \E b \in {x \in TrackBodies : TrackValid(x)} : CreateTrack(b, "none") /\ WithinBounds
    \/ \E b \in {x \in PlaylistBodies : x.name # NoName /\ x.tracks = NoList} :
          CreatePlaylist(b, "none") /\ WithinBounds
    \/ \E r \in LowerRefs : DeleteTrack(r, "none")
    \/ \E c \in Conns, p \in PlaylistIds, b \in ConcBodies : LoadPlaylist(c, p, b, "none")
    \/ \E c \in Conns : ResolveTrack(c, "none") /\ WithinBounds
    \/ \E c \in Conns, f \in {"none", "savePlaylist"} : LinkTrack(c, f)

SpecConc == Init /\ [][NextConc]_vars

(* C4: when two link-existing add-track requests for one track and one     *)
(* playlist have both loaded the playlist before either saved (neither     *)
(* loaded document has an entry for the track) and no save was rejected,   *)
(* both answer 201 and the stored playlist holds two entries for the track.*)
C4_InterleavedAddsBothAppend ==
    \A a, b \in Conns :
        (/\ a # b
         /\ procs[a].pc = "done" /\ procs[b].pc = "done"
         /\ procs[a].body.ref # NoRef /\ procs[b].body.ref # NoRef
         /\ procs[a].oid # NoId /\ procs[a].oid = procs[b].oid
         /\ procs[a].pid = procs[b].pid
         /\ Count(procs[a].doc.tracks, procs[a].oid) = 0
         /\ Count(procs[b].doc.tracks, procs[b].oid) = 0
         /\ procs[a].status # 500 /\ procs[b].status # 500)
        => /\ procs[a].status = 201 /\ procs[b].status = 201
           /\ Count(playlists[procs[a].pid].tracks, procs[a].oid) = 2

C4_Witness ==
    /\ procs["c1"].pc = "done" /\ procs["c2"].pc = "done"
    /\ procs["c1"].status = 201 /\ procs["c2"].status = 201
    /\ procs["c1"].body = procs["c2"].body
    /\ procs["c1"].body.ref \in LowerRefs
    /\ procs["c1"].pid = procs["c2"].pid
    /\ procs["c1"].pid \in DOMAIN playlists
    /\ procs["c1"].oid \in DOMAIN tracks
    /\ Count(playlists[procs["c1"].pid].tracks, procs["c1"].oid) = 2

---------------------------------------------------------------------------
(* The one-request-at-a-time server with a second playlist *)

WithinBoundsTwo ==
    /\ trackSeq' <= MaxTracks
    /\ playlistSeq' <= MaxPlaylists + 1
    /\ \A p \in DOMAIN playlists' : Len(playlists'[p].tracks) <= MaxEntries

\* Create-and-link bodies whose Track passes validation.
ValidCreateBodies ==
    [title : {"A"}, ref : {NoRef}, duration : {NoVal}, createdAt : {NoVal},
          artist : {NoTitle}, metadata : {NoMeta}, id : {NoId, ForeignId}]

NextTwo ==
    \/ Ack
    \/ Ready /\ Tick
    \/ Ready /\ \E b \in {x \in PlaylistBodies : x.name # NoName /\ Len(x.tracks) <= 1} :
          CreatePlaylist(b, "none") /\ WithinBoundsTwo
    \/ Ready /\ \E p \in 1..playlistSeq, b \in ValidCreateBodies,
                   f \in {"none", "savePlaylist"} :
          AddTrack(p, b, f) /\ WithinBoundsTwo
    \/ Ready /\ \E r \in LowerRefs : DeleteTrack(r, "none")

SpecTwo == Init /\ [][NextTwo]_vars

(* C9: a create-and-link add-track whose Track is created and whose        *)
(* playlist save is rejected answers an error, leaves the new Track in the *)
(* track store, and leaves no playlist with an entry referencing it.       *)
C9_CreatedTrackStaysUnlinked ==
    [][\A p \in DOMAIN playlists : \A b \in ValidCreateBodies :
          (/\ Served("addTrack")
           /\ NewTrackId(b) \notin DOMAIN tracks
           /\ ~IsDuplicate(playlists[p].tracks, IdToString(NewTrackId(b)))
           /\ AddTrack(p, b, "savePlaylist"))
          => /\ resp'.status >= 400
             /\ NewTrackId(b) \in DOMAIN tracks'
             /\ \A q \in DOMAIN playlists' :
                   Count(playlists'[q].tracks, NewTrackId(b)) = 0]_vars

---------------------------------------------------------------------------
(* The entry routes of src/unnamed/part_001 *)

\* POST /api/v1/playlists/:id/tracks: always creates the Track, no
\* duplicate check, updatedAt untouched, every error is a 400.
LegacyAddTrack(pid, body, fail) ==
    LET f == FindPlaylist(pid, fail)
        oid == NewTrackId(body)
        doc == playlists[pid]
    IN  /\ UNCHANGED <<playlistSeq, now, procs, playbacks, playbackSeq, got, gone>>
        /\ IF f.status # 0 THEN
               /\ resp' = Response("addTrack", IF f.status = 500 THEN 400 ELSE 404, f.msg,
                                   pid, body.ref, "")
               /\ UNCHANGED <<tracks, playlists, trackSeq>>
           ELSE IF ~TrackValid(body) \/ fail = "saveTrack" \/ oid \in DOMAIN tracks THEN
               /\ resp' = Response("addTrack", 400, "save failed", pid, body.ref, "")
               /\ UNCHANGED <<tracks, playlists, trackSeq>>
           ELSE
               /\ tracks' = Put(tracks, oid, NewTrack(body, now))
               /\ trackSeq' = IF body.id = NoId THEN trackSeq + 1 ELSE trackSeq
               /\ IF fail = "savePlaylist"
                  THEN /\ resp' = Response("addTrack", 400, "save failed", pid, body.ref, "")
                       /\ UNCHANGED playlists
                  ELSE /\ resp' = Response("addTrack", 201, "created", pid, body.ref, "")
                       /\ playlists' =
                             [playlists EXCEPT ![pid].tracks =
                                 Append(@, NewEntry(oid, Len(doc.tracks) + 1, now))]

\* Object.assign(trackItem, req.body): every field the body carries.
LegacyAssignEntry(entry, body) ==
    [trackId |-> IF body.trackId # NoId THEN body.trackId ELSE entry.trackId,
     order |-> IF body.order # NoVal THEN body.order ELSE entry.order,
     addedAt |-> IF body.addedAt # NoVal THEN body.addedAt ELSE entry.addedAt]

LegacyEntryBodies ==
    [trackId : {NoId, BadId} \cup KnownTrackIds, order : {NoVal, 2, BadVal},
     addedAt : {NoVal, 0}]

\* PUT /api/v1/playlists/:id/tracks/:trackId
LegacyUpdateEntry(pid, ref, body, fail) ==
    LET f == FindPlaylist(pid, fail)
        doc == playlists[pid]
        i == FindIndex(doc.tracks, ref)
        item == LegacyAssignEntry(doc.tracks[i], body)
    IN  /\ UNCHANGED <<tracks, trackSeq, playlistSeq, now, procs,
                       playbacks, playbackSeq, got, gone>>
        /\ IF f.status # 0 THEN
               /\ resp' = Response("updateEntry", IF f.status = 500 THEN 400 ELSE 404,
                                   f.msg, pid, ref, "")
               /\ UNCHANGED playlists
           ELSE IF i = 0 THEN
               /\ resp' = Response("updateEntry", 404, "Track not found in playlist",
                                   pid, ref, "")
               /\ UNCHANGED playlists
           ELSE IF item.order = BadVal \/ item.trackId = BadId \/ fail = "savePlaylist" THEN
               /\ resp' = Response("updateEntry", 400, "save failed", pid, ref, "")
               /\ UNCHANGED playlists
           ELSE
               /\ playlists' = [playlists EXCEPT ![pid].tracks[i] = item]
               /\ resp' = Response("updateEntry", 200, "updated", pid, ref, "")

\* DELETE /api/v1/playlists/:id/tracks/:trackId: 200 whether or not an
\* entry matched.
LegacyRemoveEntry(pid, ref, fail) ==
    LET f == FindPlaylist(pid, fail)
    IN  /\ UNCHANGED <<tracks, trackSeq, playlistSeq, now, procs,
                       playbacks, playbackSeq, got, gone>>
        /\ IF f.status # 0 THEN
               /\ resp' = Response("removeEntry", f.status, f.msg, pid, ref, "")
               /\ UNCHANGED playlists
           ELSE IF fail = "savePlaylist" THEN
               /\ resp' = Response("removeEntry", 500, "internal", pid, ref, "")
               /\ UNCHANGED playlists
           ELSE
               /\ playlists' = [playlists EXCEPT ![pid].tracks = FilterOut(@, ref)]
               /\ resp' = Response("removeEntry", 200, "removed", pid, ref, "")

NextLegacy ==
    \/ Ack
    \/ Ready /\ Tick
    \/ Ready /\ \E b \in {x \in PlaylistBodies : x.name # NoName /\ Len(x.tracks) <= 1} :
          CreatePlaylist(b, "none") /\ WithinBounds
    \/ Ready /\ \E p \in PidArgs, b \in {x \in TrackBodies : x.title # BadTitle},
                   f \in {"none", "saveTrack", "savePlaylist"} :
          LegacyAddTrack(p, b, f) /\ WithinBounds
    \/ Ready /\ \E p \in PidArgs, r \in RefArgs, b \in LegacyEntryBodies,
                   f \in {"none", "savePlaylist"} :
          LegacyUpdateEntry(p, r, b, f)
    \/ Ready /\ \E p \in PidArgs, r \in RefArgs, f \in {"none", "savePlaylist"} :
          LegacyRemoveEntry(p, r, f)

SpecLegacy == Init /\ [][NextLegacy]_vars

\* Entry by entry, playlist p differs at most in the order and addedAt of
\* the first entry that ref addresses.
OnlyOrderAndAddedAtChange(p, ref) ==
    LET old == playlists[p].tracks
        new == playlists'[p].tracks
    IN  /\ Len(new) = Len(old)
        /\ \A i \in 1..Len(old) :
              /\ new[i].trackId = old[i].trackId
              /\ i # FindIndex(old, ref) => new[i] = old[i]

(* C10: update-entry, in the handler of src/server.js and in the handler   *)
(* of src/unnamed/part_001, changes at most the order and addedAt of the   *)
(* addressed entry, whatever the body: the entry's trackId, the number and *)
(* positions of the entries and all other entries stay as they are.        *)
C10_UpdateEntryKeepsReference ==
    [][\A p \in DOMAIN playlists : \A r \in RefArgs :
          (/\ Served("updateEntry")
           /\ \/ \E b \in EntryBodies : UpdateEntry(p, r, b, "none")
              \/ \E b \in LegacyEntryBodies : LegacyUpdateEntry(p, r, b, "none"))
          => /\ p \in DOMAIN playlists'
             /\ OnlyOrderAndAddedAtChange(p, r)]_vars

---------------------------------------------------------------------------
(* The playlist routes of the userId variant (src/server.js lines 407-770) *)

NoOwner == ""       \* userId absent
BadOwner == "{}"    \* a userId that is no ObjectId
Owners == {"u1", "u2"}

\* The userId a stored playlist carries; the schema of lines 63-75 has none.
OwnerOf(doc) == IF "userId" \in DOMAIN doc THEN doc.userId ELSE NoOwner

\* The ids of a find() result, in the order the documents were inserted.
IdSeq(ids) ==
    CHOOSE s \in [1..Cardinality(ids) -> ids] :
        \A i, j \in 1..Cardinality(ids) : i < j => s[i] < s[j]

VariantPlaylistBodies ==
    [name : {NoName, "N"}, tracks : {NoList}, updatedAt : {NoVal},
     userId : {NoOwner, BadOwner} \cup Owners]

\* new Playlist(req.body) with PlaylistSchema of lines 458-474.
VariantNewPlaylist(body, t) ==
    [name |-> body.name,
     tracks |-> CastEntries(body.tracks, t),
     createdAt |-> t,
     updatedAt |-> IF body.updatedAt # NoVal THEN body.updatedAt ELSE t,
     userId |-> body.userId]

\* POST /api/v1/playlists: name and userId are required.
VariantCreatePlaylist(body, fail) ==
    /\ UNCHANGED <<tracks, trackSeq, now, procs, playbacks, playbackSeq, got, gone>>
    /\ IF body.name = NoName \/ body.userId \notin Owners \/ fail = "savePlaylist"
       THEN /\ resp' = Response("createPlaylist", 400, "save failed", NoId, NoRef, "")
            /\ UNCHANGED <<playlists, playlistSeq>>
       ELSE /\ playlists' = Put(playlists, playlistSeq + 1, VariantNewPlaylist(body, now))
            /\ playlistSeq' = playlistSeq + 1
            /\ resp' = Response("createPlaylist", 201, "created", playlistSeq + 1,
                                NoRef, "")

\* GET /api/v1/playlists[?userId=...]
VariantListPlaylists(owner, fail) ==
    /\ UNCHANGED <<tracks, playlists, trackSeq, playlistSeq, now, procs, playbacks,
                   playbackSeq, gone>>
    /\ IF owner = BadOwner \/ fail = "findPlaylist"
       THEN /\ resp' = Response("listPlaylists", 500, "internal", NoId, NoRef, "")
            /\ UNCHANGED got
       ELSE /\ resp' = Response("listPlaylists", 200, "", NoId, NoRef, "")
            /\ got' = IdSeq({p \in DOMAIN playlists :
                                owner = NoOwner \/ playlists[p].userId = owner})

\* POST /api/v1/playlists/:id/tracks: links an existing Track only; every
\* thrown error is a 400; updatedAt untouched.
VariantAddTrack(pid, body, fail) ==
    LET f == FindPlaylist(pid, fail)
        doc == playlists[pid]
        oid == CastId(body.ref)
    IN  /\ UNCHANGED <<tracks, trackSeq, playlistSeq, now, procs, playbacks, playbackSeq,
                       got, gone>>
        /\ IF body.ref = NoRef THEN
               /\ resp' = Response("addTrack", 400, "Missing", pid, body.ref, "")
               /\ UNCHANGED playlists
           ELSE IF f.status # 0 THEN
               /\ resp' = Response("addTrack", IF f.status = 500 THEN 400 ELSE 404, f.msg,
                                   pid, body.ref, "")
               /\ UNCHANGED playlists
           ELSE IF ~IsValidObjectId(body.ref) \/ fail = "findTrack" THEN
               /\ resp' = Response("addTrack", 400, "find failed", pid, body.ref, "")
               /\ UNCHANGED playlists
           ELSE IF oid \notin DOMAIN tracks THEN
               /\ resp' = Response("addTrack", 404, "Track not found", pid, body.ref, "")
               /\ UNCHANGED playlists
           ELSE IF IsDuplicate(doc.tracks, body.ref) THEN
               /\ resp' = Response("addTrack", 400, "already exists", pid, body.ref, "")
               /\ UNCHANGED playlists
           ELSE IF fail = "savePlaylist" THEN
               /\ resp' = Response("addTrack", 400, "save failed", pid, body.ref, "")
               /\ UNCHANGED playlists
           ELSE
               /\ resp' = Response("addTrack", 201, "linked", pid, body.ref, "")
               /\ playlists' =
                     [playlists EXCEPT ![pid].tracks =
                         Append(@, NewEntry(oid, Len(doc.tracks) + 1, now))]

\* PUT /api/v1/playlists/:id/tracks/:trackId: order only, and order is
\* required.
VariantUpdateEntry(pid, ref, body, fail) ==
    LET f == FindPlaylist(pid, fail)
        doc == playlists[pid]
        i == FindIndex(doc.tracks, ref)
    IN  /\ UNCHANGED <<tracks, trackSeq, playlistSeq, now, procs, playbacks, playbackSeq,
                       got, gone>>
        /\ IF f.status # 0 THEN
               /\ resp' = Response("updateEntry", IF f.status = 500 THEN 400 ELSE 404,
                                   f.msg, pid, ref, "")
               /\ UNCHANGED playlists
           ELSE IF i = 0 THEN
               /\ resp' = Response("updateEntry", 404, "Track not found in playlist",
                                   pid, ref, "")
               /\ UNCHANGED playlists
           ELSE IF body.order \in {NoVal, BadVal} \/ fail = "savePlaylist" THEN
               /\ resp' = Response("updateEntry", 400, "no order / save failed", pid, ref, "")
               /\ UNCHANGED playlists
           ELSE
               /\ playlists' = [playlists EXCEPT ![pid].tracks[i].order = body.order]
               /\ resp' = Response("updateEntry", 200, "updated", pid, ref, "")

\* playlist.tracks.forEach((t, index) => t.order = index + 1)
\* A renumbering that counts from 0.
RenumberFromZero(entries) ==
    [i \in 1..Len(entries) |-> [entries[i] EXCEPT !.order = i - 1]]

\* Line 701: forEach((t, index) => t.order = index + 1)
Renumber(entries) == [i \in 1..Len(entries) |-> [entries[i] EXCEPT !.order = i]]

\* DELETE /api/v1/playlists/:id/tracks/:trackId: filters, renumbers, saves
\* and answers 200 whether or not an entry matched.
VariantRemoveEntry(pid, ref, fail) ==
    LET f == FindPlaylist(pid, fail)
    IN  /\ UNCHANGED <<tracks, trackSeq, playlistSeq, now, procs, playbacks, playbackSeq,
                       got, gone>>
        /\ IF f.status # 0 THEN
               /\ resp' = Response("removeEntry", f.status, f.msg, pid, ref, "")
               /\ UNCHANGED playlists
           ELSE IF fail = "savePlaylist" THEN
               /\ resp' = Response("removeEntry", 500, "internal", pid, ref, "")
               /\ UNCHANGED playlists
           ELSE
               /\ playlists' = [playlists EXCEPT ![pid].tracks = Renumber(FilterOut(@, ref))]
               /\ resp' = Response("removeEntry", 200, "removed", pid, ref, "")

VariantEntryBodies == [order : {NoVal, 1, 2, BadVal}, addedAt : {NoVal}]

WithinBoundsVariant ==
    /\ trackSeq' <= MaxTracks
    /\ playlistSeq' <= MaxPlaylists + 1
    /\ \A p \in DOMAIN playlists' : Len(playlists'[p].tracks) <= MaxEntries

NextVariant ==
    \/ Ack
    \/ Ready /\ \E b \in {x \in TrackBodies : TrackValid(x) /\ x.id = NoId} :
          CreateTrack(b, "none") /\ WithinBoundsVariant
    \/ Ready /\ \E b \in VariantPlaylistBodies, f \in {"none", "savePlaylist"} :
          VariantCreatePlaylist(b, f) /\ WithinBoundsVariant
    \/ Ready /\ \E o \in {NoOwner, BadOwner} \cup Owners, f \in {"none", "findPlaylist"} :
          VariantListPlaylists(o, f)
    \/ Ready /\ \E p \in 1..playlistSeq \cup {BadId},
                   r \in {NoRef, BadRef} \cup Spellings(KnownTrackIds),
                   f \in {"none", "findTrack", "savePlaylist"} :
          VariantAddTrack(p, LinkBody(r), f) /\ WithinBoundsVariant
    \/ Ready /\ \E p \in 1..playlistSeq, r \in RefArgs, b \in VariantEntryBodies :
          VariantUpdateEntry(p, r, b, "none")
    \/ Ready /\ \E p \in 1..playlistSeq \cup {BadId}, r \in RefArgs,
                   f \in {"none", "savePlaylist"} :
          VariantRemoveEntry(p, r, f)

SpecVariant == Init /\ [][NextVariant]_vars

(* C11: a remove-entry whose track reference matches no entry of an        *)
(* existing playlist answers 404 and leaves the playlist as it is, in the  *)
(* handler of src/server.js lines 316-336, in the userId variant and in    *)
(* src/unnamed/part_001.                                                   *)
C11_RemoveOfAbsentEntryIsNotFound ==
    [][\A p \in DOMAIN playlists : \A r \in RefArgs :
          (/\ Served("removeEntry")
           /\ FindIndex(playlists[p].tracks, r) = 0
           /\ \/ RemoveEntry(p, r, "none")
              \/ VariantRemoveEntry(p, r, "none")
              \/ LegacyRemoveEntry(p, r, "none"))
          => /\ resp'.status = 404
             /\ playlists' = playlists]_vars

---------------------------------------------------------------------------
(* Further properties of the one-request-at-a-time server (Spec) *)

(* C12: when an add-track has just succeeded on a playlist that did not    *)
(* hold the track, a remove-entry of that track that follows it directly   *)
(* succeeds and leaves the entry sequence the add-track found: references, *)
(* order values and positions.                                             *)
C12_AddThenRemoveRestoresEntries ==
    [][\A p \in DOMAIN playlists :
          LET old == playlists[p].tracks
              n == Len(old)
              t == IF n > 0 THEN old[n].trackId ELSE NoId
          IN  (/\ Served("removeEntry")
               /\ resp.op = "addTrack" /\ resp.status = 201
               /\ n > 0
               /\ Count(old, t) = 1
               /\ resp.ref # NoRef => resp.ref.id = t
               /\ RemoveEntry(p, [id |-> t, upper |-> FALSE], "none"))
              => /\ resp'.status = 200
                 /\ playlists'[p].tracks = SubSeq(old, 1, n - 1)]_vars

C12_Witness ==
    /\ resp.op = "removeEntry" /\ resp.status = 200
    /\ \E p \in DOMAIN playlists :
          /\ Len(playlists[p].tracks) = 1
          /\ playlists[p].tracks[1].order = 1
          /\ playlists[p].updatedAt = now /\ now > playlists[p].createdAt

---------------------------------------------------------------------------
(* The read routes of src/server.js lines 1-406 *)

\* populate('trackId'): the Track document, or null when there is none.
NoTrackDoc ==
    [title |-> NoTitle, artist |-> NoTitle, duration |-> NoVal, metadata |-> NoMeta,
     createdAt |-> NoVal]

Populated(oid) ==
    IF oid \in DOMAIN tracks
    THEN [id |-> oid, found |-> TRUE, doc |-> tracks[oid]]
    ELSE [id |-> NoId, found |-> FALSE, doc |-> NoTrackDoc]

\* populate('tracks.trackId')
PopulateEntries(entries) ==
    [i \in 1..Len(entries) |->
        [trackId |-> Populated(entries[i].trackId), order |-> entries[i].order,
         addedAt |-> entries[i].addedAt]]

\* GET /api/v1/tracks/:id
GetTrack(ref, fail) ==
    /\ UNCHANGED <<tracks, playlists, trackSeq, playlistSeq, now, procs, playbacks,
                   playbackSeq, gone>>
    /\ IF ~IsValidObjectId(ref) \/ fail = "findTrack"
       THEN /\ resp' = Response("getTrack", 500, "internal", NoId, ref, "")
            /\ UNCHANGED got
       ELSE IF CastId(ref) \notin DOMAIN tracks
       THEN /\ resp' = Response("getTrack", 404, "Track not found", NoId, ref, "")
            /\ UNCHANGED got
       ELSE /\ resp' = Response("getTrack", 200, "", NoId, ref, "")
            /\ got' = <<[id |-> CastId(ref), doc |-> tracks[CastId(ref)]]>>

\* GET /api/v1/playlists: every playlist, whatever the query string.
ListPlaylists(owner, fail) ==
    /\ UNCHANGED <<tracks, playlists, trackSeq, playlistSeq, now, procs, playbacks,
                   playbackSeq, gone>>
    /\ IF fail = "findPlaylist"
       THEN /\ resp' = Response("listPlaylists", 500, "internal", NoId, NoRef, "")
            /\ UNCHANGED got
       ELSE /\ resp' = Response("listPlaylists", 200, "", NoId, NoRef, "")
            /\ got' = IdSeq(DOMAIN playlists)

\* GET /api/v1/playlists/:id
GetPlaylist(pid, fail) ==
    LET f == FindPlaylist(pid, fail)
    IN  /\ UNCHANGED <<tracks, playlists, trackSeq, playlistSeq, now, procs, playbacks,
                       playbackSeq, gone>>
        /\ resp' = Response("getPlaylist", IF f.status = 0 THEN 200 ELSE f.status, f.msg,
                            pid, NoRef, "")
        /\ got' = IF f.status # 0 THEN got
                  ELSE <<[id |-> pid, name |-> playlists[pid].name,
                          tracks |-> PopulateEntries(playlists[pid].tracks)]>>

\* GET /api/v1/playlists/:id/tracks
GetPlaylistTracks(pid, fail) ==
    LET f == FindPlaylist(pid, fail)
    IN  /\ UNCHANGED <<tracks, playlists, trackSeq, playlistSeq, now, procs, playbacks,
                       playbackSeq, gone>>
        /\ resp' = Response("getPlaylistTracks", IF f.status = 0 THEN 200 ELSE f.status,
                            f.msg, pid, NoRef, "")
        /\ got' = IF f.status # 0 THEN got ELSE PopulateEntries(playlists[pid].tracks)

(* The playlists and their entries, written and read: playlists are        *)
(* created (with a generated or a caller's _id), filled, read and deleted. *)
NextRead ==
    \/ Ack
    \/ Ready /\ \E b \in {x \in TrackBodies : TrackValid(x) /\ x.id = NoId} :
          CreateTrack(b, "none") /\ WithinBounds
    \/ Ready /\ \E b \in PlaylistIdBodies : CreatePlaylist(b, "none") /\ WithinBounds
    \/ Ready /\ \E p \in PidArgs, f \in {"none", "findPlaylist"} : DeletePlaylist(p, f)
    \/ Ready /\ \E o \in {NoOwner} \cup Owners, f \in {"none", "findPlaylist"} :
          ListPlaylists(o, f)
    \/ Ready /\ \E p \in PidArgs, f \in {"none", "findPlaylist"} : GetPlaylist(p, f)
    \/ Ready /\ \E p \in PidArgs, f \in {"none", "findPlaylist"} : GetPlaylistTracks(p, f)
    \/ Ready /\ \E p \in PidArgs, b \in {LinkBody(r) : r \in LowerRefs} \cup {NeitherBody} :
          AddTrack(p, b, "none") /\ WithinBounds
    \/ Ready /\ \E p \in PidArgs, r \in LowerRefs, b \in {x \in EntryBodies : x.order = 2} :
          UpdateEntry(p, r, b, "none")
    \/ Ready /\ \E p \in PidArgs, r \in LowerRefs : RemoveEntry(p, r, "none")
    \/ Ready /\ \E r \in LowerRefs : DeleteTrack(r, "none")

SpecRead == Init /\ [][NextRead]_vars

\* The step is a read of, or an entry request on, playlist p.
RequestOn(p) ==
    \/ GetPlaylist(p, "none")
    \/ GetPlaylistTracks(p, "none")
    \/ \E b \in {LinkBody(r) : r \in LowerRefs} \cup {NeitherBody} : AddTrack(p, b, "none")
    \/ \E r \in LowerRefs, b \in EntryBodies : UpdateEntry(p, r, b, "none")
    \/ \E r \in LowerRefs : RemoveEntry(p, r, "none")

(* C13: a successful playlist delete removes that playlist with all its    *)
(* entries and no Track, and from then on every get, list-entries,         *)
(* add-track, update-entry and remove-entry on that id answers 404.        *)
C13_DeletedPlaylistStaysGone ==
    [][/\ (Served("deletePlaylist") /\ resp'.status = 200)
          => /\ tracks' = tracks
             /\ \E p \in DOMAIN playlists : playlists' = Remove(playlists, p)
       /\ \A p \in gone :
             (now' = now /\ resp'.op # "none" /\ RequestOn(p)) => resp'.status = 404]_vars

(* C14: a track delete changes no playlist (entries, order values, count,   *)
(* updatedAt), and when it succeeds it removes exactly one Track; entries  *)
(* that referenced the Track stay and reference nothing.                   *)
C14_TrackDeleteTouchesNoPlaylist ==
    [][Served("deleteTrack")
        => /\ playlists' = playlists
           /\ resp'.status = 200
                 => \E t \in DOMAIN tracks : tracks' = Remove(tracks, t)
           /\ resp'.status # 200 => tracks' = tracks]_vars

C14_Witness ==
    /\ resp.op = "deleteTrack" /\ resp.status = 200
    /\ DOMAIN tracks = {}
    /\ \E p \in DOMAIN playlists : \E i \in 1..Len(playlists[p].tracks) :
          /\ playlists[p].tracks[i].trackId \in 1..trackSeq
          /\ playlists[p].tracks[i].order = i
          /\ playlists[p].updatedAt < now

---------------------------------------------------------------------------
(* The track routes with every field of the body (src/server.js lines      *)
(* 98-149): title and artist are Strings (album is declared like artist),  *)
(* duration is a Number, metadata is Mixed, createdAt is a Date.           *)

FullTrackBodies ==
    [title : {NoTitle, "A", NumberAsTitle}, artist : {NoTitle, "A"},
     duration : {NoVal, 1, NumberString}, metadata : {NoMeta, EmptyMeta, "{k:1}"},
     createdAt : {NoVal, 0}, ref : {NoRef}, id : {NoId}]

FullTrackUpdateBodies ==
    [title : {NoTitle, "B"}, artist : {NoTitle}, duration : {NoVal, BadVal},
     metadata : {NoMeta}, createdAt : {NoVal, 0}, ref : {NoRef}, id : {NoId}]

NextTracks ==
    \/ Ack
    \/ Ready /\ Tick
    \/ Ready /\ \E b \in FullTrackBodies, f \in {"none", "saveTrack"} :
          CreateTrack(b, f) /\ WithinBounds
    \/ Ready /\ \E r \in RefArgs, b \in FullTrackUpdateBodies, f \in {"none", "saveTrack"} :
          UpdateTrack(r, b, f)
    \/ Ready /\ \E r \in RefArgs, f \in {"none", "saveTrack"} : DeleteTrack(r, f)
    \/ Ready /\ \E r \in RefArgs, f \in {"none", "findTrack"} : GetTrack(r, f)

SpecTracks == Init /\ [][NextTracks]_vars

\* Bodies whose fields have the declared types: a title, and no number
\* where a String or string where a Number is declared.
TypedTrackBodies ==
    {b \in FullTrackBodies : /\ b.title \notin {NoTitle, NumberAsTitle}
                             /\ b.duration # NumberString}

(* C15: a track created from a body with valid fields is stored with the   *)
(* title, artist (album), duration and metadata of the body, and a fetch   *)
(* by its id returns the stored document.                                  *)
C15_TrackRoundTrip ==
    [][/\ \A b \in TypedTrackBodies :
             (Served("createTrack") /\ resp'.status = 201 /\ CreateTrack(b, "none"))
             => /\ NewTrackId(b) \in DOMAIN tracks'
                /\ tracks'[NewTrackId(b)].title = b.title
                /\ tracks'[NewTrackId(b)].artist = b.artist
                /\ tracks'[NewTrackId(b)].duration = b.duration
                /\ tracks'[NewTrackId(b)].metadata = b.metadata
       /\ \A r \in KnownRefs :
             (Served("getTrack") /\ resp'.status = 200 /\ GetTrack(r, "none"))
             => got' = <<[id |-> r.id, doc |-> tracks[r.id]]>>]_vars

(* C18: a Track's createdAt is the time of the request that created it,    *)
(* and no later request changes it.                                        *)
C18_CreatedAtSetOnceByServer ==
    [][/\ (Served("createTrack") /\ resp'.status = 201)
          => \A t \in DOMAIN tracks' \ DOMAIN tracks : tracks'[t].createdAt = now
       /\ \A t \in DOMAIN tracks \cap DOMAIN tracks' :
             tracks'[t].createdAt = tracks[t].createdAt]_vars

---------------------------------------------------------------------------
(* The playback routes (src/server.js lines 343-383) over the Playback     *)
(* collection (PlaybackSchema, lines 79-85).                               *)

MaxPlaybacks == 2

PlaybackIds == 1..MaxPlaybacks

\* req.params.id of the playback routes: a stored id, an unused one, or a
\* string that is no ObjectId.
PlaybackArgs == PlaybackIds \cup {BadId}

\* isPlaying in a body: absent ("") or the given Boolean ("false").
PlaybackBodies ==
    [trackId : {NoId, BadId} \cup ServerTrackIds, position : {NoVal},
     isPlaying : {NoTitle}, updatedAt : {NoVal, 0}]

PlaybackUpdateBodies ==
    [trackId : {NoId}, position : {NoVal},
     isPlaying : {NoTitle, "false"}, updatedAt : {NoVal, BadVal} \cup Times]

\* new Playback(req.body): the schema's defaults fill what the body omits.
NewPlayback(body, t) ==
    [trackId |-> body.trackId, position |-> body.position,
     isPlaying |-> (body.isPlaying # "false"),
     startedAt |-> t,
     updatedAt |-> IF body.updatedAt # NoVal THEN body.updatedAt ELSE t]

\* POST /api/v1/playback
CreatePlayback(body, fail) ==
    /\ UNCHANGED <<tracks, playlists, trackSeq, playlistSeq, now, procs, got, gone>>
    /\ IF body.trackId = BadId \/ body.updatedAt = BadVal \/ fail = "savePlayback"
       THEN /\ resp' = Response("createPlayback", 400, "invalid", NoId, NoRef, "")
            /\ UNCHANGED <<playbacks, playbackSeq>>
       ELSE /\ playbackSeq' = playbackSeq + 1
            /\ playbacks' = Put(playbacks, playbackSeq + 1, NewPlayback(body, now))
            /\ resp' = Response("createPlayback", 201, "created", NoId, NoRef, "")

\* An update that stamps the record with the time of the request.
SetPlaybackFieldsStamping(doc, body) ==
    [trackId |-> IF body.trackId # NoId THEN body.trackId ELSE doc.trackId,
     position |-> IF body.position # NoVal THEN body.position ELSE doc.position,
     isPlaying |-> IF body.isPlaying # NoTitle THEN body.isPlaying # "false"
                   ELSE doc.isPlaying,
     startedAt |-> doc.startedAt,
     updatedAt |-> IF body.updatedAt # NoVal THEN body.updatedAt ELSE now]

\* findByIdAndUpdate(id, req.body): the fields of the body are set, no
\* other field is written.
SetPlaybackFields(doc, body) ==
    [trackId |-> IF body.trackId # NoId THEN body.trackId ELSE doc.trackId,
     position |-> IF body.position # NoVal THEN body.position ELSE doc.position,
     isPlaying |-> IF body.isPlaying # NoTitle THEN body.isPlaying # "false"
                   ELSE doc.isPlaying,
     startedAt |-> doc.startedAt,
     updatedAt |-> IF body.updatedAt # NoVal THEN body.updatedAt ELSE doc.updatedAt]

\* PUT /api/v1/playback/:id
UpdatePlayback(id, body, fail) ==
    /\ UNCHANGED <<tracks, playlists, trackSeq, playlistSeq, now, procs, playbackSeq,
                   got, gone>>
    /\ IF \/ id = BadId \/ body.trackId = BadId \/ body.updatedAt = BadVal
          \/ fail = "findPlayback"
       THEN /\ resp' = Response("updatePlayback", 400, "invalid", NoId, NoRef, "")
            /\ UNCHANGED playbacks
       ELSE IF id \notin DOMAIN playbacks
       THEN /\ resp' = Response("updatePlayback", 404, "Playback not found", NoId, NoRef, "")
            /\ UNCHANGED playbacks
       ELSE /\ playbacks' = Put(playbacks, id, SetPlaybackFields(playbacks[id], body))
            /\ resp' = Response("updatePlayback", 200, "", NoId, NoRef, "")

\* DELETE /api/v1/playback/:id
DeletePlayback(id, fail) ==
    /\ UNCHANGED <<tracks, playlists, trackSeq, playlistSeq, now, procs, playbackSeq,
                   got, gone>>
    /\ IF id = BadId \/ fail = "findPlayback"
       THEN /\ resp' = Response("deletePlayback", 500, "internal", NoId, NoRef, "")
            /\ UNCHANGED playbacks
       ELSE IF id \notin DOMAIN playbacks
       THEN /\ resp' = Response("deletePlayback", 404, "Playback not found", NoId, NoRef, "")
            /\ UNCHANGED playbacks
       ELSE /\ playbacks' = Remove(playbacks, id)
            /\ resp' = Response("deletePlayback", 200, "Playback record deleted",
                                NoId, NoRef, "")

\* The orders in which a set of ids can be listed.
Orderings(ids) ==
    {s \in [1..Cardinality(ids) -> ids] :
        \A i, j \in 1..Cardinality(ids) : i # j => s[i] # s[j]}

SortByUpdatedAtAscending(docs) ==
    {s \in Orderings(DOMAIN docs) :
        \A i \in 1..(Len(s) - 1) : docs[s[i]].updatedAt <= docs[s[i + 1]].updatedAt}

\* sort({ updatedAt: -1 }): latest first; records with equal updatedAt come
\* in an order the store chooses.
SortByUpdatedAt(docs) ==
    {s \in Orderings(DOMAIN docs) :
        \A i \in 1..(Len(s) - 1) : docs[s[i]].updatedAt >= docs[s[i + 1]].updatedAt}

LimitNone(s, n) == s

\* limit(n)
Limit(s, n) == IF Len(s) <= n THEN s ELSE SubSeq(s, 1, n)

\* populate('trackId') of the records listed in s
PopulatePlaybacks(s) ==
    [i \in 1..Len(s) |->
        [id |-> s[i], trackId |-> Populated(playbacks[s[i]].trackId),
         position |-> playbacks[s[i]].position, isPlaying |-> playbacks[s[i]].isPlaying,
         startedAt |-> playbacks[s[i]].startedAt,
         updatedAt |-> playbacks[s[i]].updatedAt]]

\* GET /api/v1/playback
GetPlayback(fail) ==
    /\ UNCHANGED <<tracks, playlists, trackSeq, playlistSeq, now, procs, playbacks,
                   playbackSeq, gone>>
    /\ IF fail = "findPlayback"
       THEN /\ resp' = Response("getPlayback", 500, "internal", NoId, NoRef, "")
            /\ UNCHANGED got
       ELSE /\ resp' = Response("getPlayback", 200, "", NoId, NoRef, "")
            /\ \E s \in SortByUpdatedAt(playbacks) :
                  got' = PopulatePlaybacks(Limit(s, 1))

PlayTrackBodies ==
    [title : {"A"}, ref : {NoRef}, duration : {NoVal}, createdAt : {NoVal},
     artist : {NoTitle}, metadata : {NoMeta}, id : {NoId}]

NextPlay ==
    \/ Ack
    \/ Ready /\ Tick
    \/ Ready /\ \E b \in PlayTrackBodies : CreateTrack(b, "none") /\ WithinBounds
    \/ Ready /\ \E b \in PlaybackBodies, f \in {"none", "savePlayback"} :
          CreatePlayback(b, f) /\ playbackSeq' <= MaxPlaybacks
    \/ Ready /\ \E i \in PlaybackArgs, b \in PlaybackUpdateBodies,
                   f \in {"none", "findPlayback"} : UpdatePlayback(i, b, f)
    \/ Ready /\ \E i \in PlaybackArgs, f \in {"none", "findPlayback"} :
          DeletePlayback(i, f)
    \/ Ready /\ \E f \in {"none", "findPlayback"} : GetPlayback(f)

SpecPlay == Init /\ [][NextPlay]_vars

(* C16: the most-recent-playback fetch returns a record whose updatedAt is *)
(* the greatest of all stored playback records; with records created at    *)
(* T1 < T2 and not written since, that is the record created at T2.        *)
C16_FetchReturnsLatestPlayback ==
    [][(Served("getPlayback") /\ resp'.status = 200 /\ DOMAIN playbacks # {})
       => /\ Len(got') >= 1
          /\ got'[1].id \in DOMAIN playbacks
          /\ got'[1].updatedAt = playbacks[got'[1].id].updatedAt
          /\ \A q \in DOMAIN playbacks : got'[1].updatedAt >= playbacks[q].updatedAt
          /\ \A q \in DOMAIN playbacks :
                (\A o \in DOMAIN playbacks \ {q} :
                    /\ playbacks[o].startedAt < playbacks[q].startedAt
                    /\ playbacks[o].updatedAt = playbacks[o].startedAt
                    /\ playbacks[q].updatedAt = playbacks[q].startedAt)
                => got'[1].id = q]_vars

\* Two records created at T1 < T2 with the server's timestamps, and the
\* fetch has returned the one created at T2.
C16_Witness ==
    /\ resp.op = "getPlayback" /\ resp.status = 200
    /\ \E p, q \in DOMAIN playbacks :
          /\ playbacks[p].startedAt < playbacks[q].startedAt
          /\ playbacks[p].updatedAt = playbacks[p].startedAt
          /\ playbacks[q].updatedAt = playbacks[q].startedAt
          /\ Len(got) = 1 /\ got[1].id = q

(* C17: the most-recent-playback fetch returns at most one record, and     *)
(* returns none exactly when no playback record is stored.                 *)
C17_FetchReturnsAtMostOne ==
    [][(Served("getPlayback") /\ resp'.status = 200)
       => /\ Len(got') <= 1
          /\ (Len(got') = 0) <=> (DOMAIN playbacks = {})]_vars

\* A fetch that returned one record while two are stored.
C17_Witness ==
    /\ resp.op = "getPlayback" /\ resp.status = 200
    /\ Cardinality(DOMAIN playbacks) >= 2
    /\ Len(got) = 1

---------------------------------------------------------------------------
(* C19: a playlist listing asked with an owner reference returns exactly   *)
(* the playlists of that owner, and one asked without it returns every     *)
(* playlist (GET /api/v1/playlists of the current server).                 *)
C19_ListFiltersByOwner ==
    [][\A o \in {NoOwner} \cup Owners :
          (Served("listPlaylists") /\ resp'.status = 200 /\ ListPlaylists(o, "none"))
          => got' = IdSeq({p \in DOMAIN playlists :
                              o = NoOwner \/ OwnerOf(playlists[p]) = o})]_vars

---------------------------------------------------------------------------
(* Completion of requests: the add-track handler await by await with every *)
(* storage call either returning or failing (src/server.js lines 227-284), *)
(* next to handlers that run in one step.                                  *)

\* Requests that have loaded their playlist and will create a Track.
PendingCreates(ps) ==
    Cardinality({c \in Conns : ps[c].pc = "loaded" /\ Shape(ps[c].body) = "create"})

\* The id counters stay within the bounds, counting the Tracks that
\* requests in flight are about to create.
WithinBoundsDone ==
    /\ trackSeq' + PendingCreates(procs') <= MaxTracks
    /\ playlistSeq' <= MaxPlaylists

DoneBodies == ConcBodies \cup {NeitherBody} \cup {BothBody(r) : r \in LowerRefs}

NextDone ==
    \/ \E b \in {x \in TrackBodies : TrackValid(x) /\ x.id = NoId},
          f \in {"none", "saveTrack"} : CreateTrack(b, f) /\ WithinBoundsDone
    \/ \E b \in {x \in PlaylistBodies : x.name # NoName /\ x.tracks = NoList} :
          CreatePlaylist(b, "none") /\ WithinBoundsDone
    \/ \E r \in LowerRefs : DeleteTrack(r, "none")
    \/ \E c \in Conns, p \in PidArgs, b \in DoneBodies, f \in {"none", "findPlaylist"} :
          LoadPlaylist(c, p, b, f) /\ WithinBoundsDone
    \/ \E c \in Conns, f \in {"none", "saveTrack", "findTrack"} : ResolveTrack(c, f)
    \/ \E c \in Conns, f \in {"none", "savePlaylist"} : LinkTrack(c, f)

\* Every storage call a request waits for returns or fails.
FairDone ==
    \A c \in Conns :
        /\ WF_vars(\E f \in {"none", "saveTrack", "findTrack"} : ResolveTrack(c, f))
        /\ WF_vars(\E f \in {"none", "savePlaylist"} : LinkTrack(c, f))

SpecDone == Init /\ [][NextDone]_vars /\ FairDone

\* How far a request has come.
Rank(pc) ==
    CASE pc = "idle" -> 0 [] pc = "loaded" -> 1 [] pc = "resolved" -> 2 [] pc = "done" -> 3

(* C20: every request is answered exactly once and is then over.  A        *)
(* request has an answer exactly when it is done, a request that is done   *)
(* never acts again, every step of a request takes it forward (no storage  *)
(* call is made a second time), a handler that runs in one step leaves one *)
(* answer, and every request that has started is eventually done.          *)
C20_EveryRequestAnsweredOnce ==
    /\ [][/\ \A c \in Conns :
              /\ (procs'[c].status # 0) <=> (procs'[c].pc = "done")
              /\ procs[c].pc = "done" => procs'[c] = procs[c]
              /\ procs'[c] # procs[c] => Rank(procs'[c].pc) > Rank(procs[c].pc)
          /\ procs' = procs => resp'.status \in {200, 201, 400, 404, 500}]_vars
    /\ \A c \in Conns : (procs[c].pc # "idle") ~> (procs[c].pc = "done")

\* A request whose playlist save failed after its Track was resolved: it is
\* done with a 500 and the playlist it loaded has gained no entry from it.
C20_Witness ==
    \E c \in Conns :
        /\ procs[c].pc = "done" /\ procs[c].status = 500
        /\ procs[c].oid # NoId
        /\ procs[c].pid \in DOMAIN playlists
        /\ playlists[procs[c].pid].tracks = <<>>

---------------------------------------------------------------------------
(* The playlist timestamps: playlists created or updated from bodies that  *)
(* carry createdAt / updatedAt (PlaylistSchema, src/server.js lines 63-75, *)
(* both Dates with a default), then changed by the entry routes.           *)

StampedPlaylistBodies ==
    [name : {"N"}, tracks : {NoList}, updatedAt : {NoVal} \cup Times,
     createdAt : {NoVal} \cup Times, id : {NoId}]

StampedUpdateBodies ==
    [name : {NoName}, tracks : {NoList}, updatedAt : {NoVal} \cup Times,
     createdAt : {NoVal}]

NextStamp ==
    \/ Ack
    \/ Ready /\ Tick
    \/ Ready /\ \E b \in {x \in TrackBodies : TrackValid(x) /\ x.id = NoId} :
          CreateTrack(b, "none") /\ WithinBounds
    \/ Ready /\ \E b \in StampedPlaylistBodies : CreatePlaylist(b, "none") /\ WithinBounds
    \/ Ready /\ \E p \in PlaylistIds, b \in StampedUpdateBodies :
          UpdatePlaylist(p, b, "none")
    \/ Ready /\ \E p \in PidArgs, r \in LowerRefs, f \in {"none", "savePlaylist"} :
          AddTrack(p, LinkBody(r), f) /\ WithinBounds
    \/ Ready /\ \E p \in PidArgs, r \in LowerRefs, b \in EntryBodies,
                   f \in {"none", "savePlaylist"} : UpdateEntry(p, r, b, f)
    \/ Ready /\ \E p \in PidArgs, r \in LowerRefs, f \in {"none", "savePlaylist"} :
          RemoveEntry(p, r, f)

SpecStamp == Init /\ [][NextStamp]_vars

(* C21: a successful add-track, update-entry or remove-entry sets the      *)
(* playlist's updatedAt to the time of the request, which is not earlier   *)
(* than the updatedAt it had and not earlier than its createdAt.           *)
C21_EntryMutationBumpsUpdatedAt ==
    [][\A p \in DOMAIN playlists \cap DOMAIN playlists' :
          (/\ now' = now /\ resp'.op \in EntryRoutes
           /\ resp'.status \in {200, 201}
           /\ playlists'[p] # playlists[p])
          => /\ playlists'[p].updatedAt = now
             /\ playlists'[p].updatedAt >= playlists[p].updatedAt
             /\ playlists'[p].updatedAt >= playlists'[p].createdAt]_vars

---------------------------------------------------------------------------
(* The entry routes of the userId server over two Tracks and a playlist    *)
(* of one owner (src/server.js lines 637-709).                             *)

NextRenumber ==
    \/ Ack
    \/ Ready /\ \E b \in {x \in TrackBodies : TrackValid(x)} :
          CreateTrack(b, "none") /\ WithinBounds
    \/ Ready /\ \E b \in {x \in VariantPlaylistBodies : x.name = "N" /\ x.userId = "u1"} :
          VariantCreatePlaylist(b, "none") /\ WithinBounds
    \/ Ready /\ \E p \in PidArgs, r \in KnownRefs, f \in {"none", "savePlaylist"} :
          VariantAddTrack(p, LinkBody(r), f) /\ WithinBounds
    \/ Ready /\ \E p \in PlaylistIds, r \in LowerRefs, b \in VariantEntryBodies :
          VariantUpdateEntry(p, r, b, "none")
    \/ Ready /\ \E p \in PidArgs, r \in RefArgs, f \in {"none", "savePlaylist"} :
          VariantRemoveEntry(p, r, f)

SpecRenumber == Init /\ [][NextRenumber]_vars

OrdersArePositions(entries) == \A i \in 1..Len(entries) : entries[i].order = i

(* C22: in the userId server a successful remove-entry leaves the entries  *)
(* that do not match, in their array order, with order values 1..m by      *)
(* position; and an add-track or remove-entry on a playlist whose order    *)
(* values equal the positions leaves them equal to the positions.          *)
C22_RemoveRenumbersFromOne ==
    [][\A p \in DOMAIN playlists :
          /\ \A r \in RefArgs :
                (/\ Served("removeEntry") /\ resp'.status = 200
                 /\ VariantRemoveEntry(p, r, "none"))
                => LET kept == SelectSeq(playlists[p].tracks,
                                         LAMBDA e : IdToString(e.trackId) # r)
                   IN  playlists'[p].tracks =
                          [i \in 1..Len(kept) |-> [kept[i] EXCEPT !.order = i]]
          /\ (/\ now' = now /\ resp'.op \in {"addTrack", "removeEntry"}
              /\ resp'.status \in {200, 201}
              /\ OrdersArePositions(playlists[p].tracks))
             => OrdersArePositions(playlists'[p].tracks)]_vars

\* A successful removal that left one entry, for the Track with the
\* caller's id, numbered 1.
C22_Witness ==
    /\ resp.op = "removeEntry" /\ resp.status = 200
    /\ \E p \in DOMAIN playlists :
          /\ Len(playlists[p].tracks) = 1
          /\ playlists[p].tracks[1].order = 1
          /\ playlists[p].tracks[1].trackId = ForeignId
          /\ playlists[p].tracks[1].addedAt = 0

---------------------------------------------------------------------------
OrdersAtLeastPositions(entries) == \A i \in 1..Len(entries) : entries[i].order >= i

(* C23: in the current server a successful remove-entry leaves the entries *)
(* that stay exactly as they were, order values included, and an add-track *)
(* or remove-entry on a playlist whose order values are at least the array *)
(* positions leaves them at least the array positions.                     *)
C23_OrdersNeverBelowPositions ==
    [][/\ (Served("removeEntry") /\ resp'.status = 200)
          => \E p \in DOMAIN playlists : \E r \in RefArgs :
                /\ DOMAIN playlists' = DOMAIN playlists
                /\ playlists'[p].tracks =
                      SelectSeq(playlists[p].tracks,
                                LAMBDA e : IdToString(e.trackId) # r)
                /\ Len(playlists'[p].tracks) < Len(playlists[p].tracks)
                /\ \A q \in DOMAIN playlists \ {p} : playlists'[q] = playlists[q]
       /\ \A p \in DOMAIN playlists \cap DOMAIN playlists' :
             (/\ now' = now /\ resp'.op \in {"addTrack", "removeEntry"}
              /\ resp'.status \in {200, 201}
              /\ OrdersAtLeastPositions(playlists[p].tracks))
             => OrdersAtLeastPositions(playlists'[p].tracks)]_vars

\* After a removal the entry that stayed is first in the array and still
\* carries the order value 2 it was added with.
C23_Witness ==
    /\ resp.op = "removeEntry" /\ resp.status = 200
    /\ \E p \in DOMAIN playlists :
          /\ Len(playlists[p].tracks) = 1
          /\ playlists[p].tracks[1].order = 2

---------------------------------------------------------------------------
\* The create-and-link bodies that pass validation: a title, no trackId.
CreateAndLinkBodies == {b \in AddBodies : b.title = "A" /\ b.ref = NoRef /\ b.duration = NoVal}

(* C24: a create-and-link add-track is never refused as a duplicate, and   *)
(* one that answers 201 has added exactly one Track and exactly one entry. *)
C24_CreateAndLinkIsNeverDuplicate ==
    [][\A p \in DOMAIN playlists : \A b \in CreateAndLinkBodies :
          (Served("addTrack") /\ AddTrack(p, b, "none"))
          => /\ resp'.msg # "already exists"
             /\ resp'.status = 201
                => /\ Cardinality(DOMAIN tracks') = Cardinality(DOMAIN tracks) + 1
                   /\ Len(playlists'[p].tracks) = Len(playlists[p].tracks) + 1]_vars

---------------------------------------------------------------------------
(* C25: an add-track for a playlist id that names no playlist answers 404  *)
(* whatever its body is, and stores no Track and changes no playlist.      *)
C25_MissingPlaylistIsCheckedFirst ==
    [][\A p \in PlaylistIds \ DOMAIN playlists : \A b \in AddBodies :
          (Served("addTrack") /\ AddTrack(p, b, "none"))
          => /\ resp'.status = 404
             /\ resp'.msg = "Playlist not found"
             /\ tracks' = tracks
             /\ trackSeq' = trackSeq
             /\ playlists' = playlists]_vars

\* A 404 for a missing playlist although the body's trackId was malformed.
C25_Witness ==
    /\ resp.op = "addTrack" /\ resp.status = 404 /\ resp.msg = "Playlist not found"
    /\ resp.ref = BadRef
    /\ DOMAIN playlists = {}

---------------------------------------------------------------------------
\* The entries hold the trackId and order of the items of a body's array.
StoredAsGiven(entries, list) ==
    /\ Len(entries) = Len(list)
    /\ \A i \in 1..Len(list) :
          /\ entries[i].trackId = list[i].trackId
          /\ entries[i].order = list[i].order

(* C26: POST /playlists and PUT /playlists/{id} store the tracks array of  *)
(* the body item by item as given (duplicates, unknown tracks and order    *)
(* values included), and the PUT leaves updatedAt as it was unless the     *)
(* body carries one.                                                       *)
C26_PlaylistBodyStoredAsGiven ==
    [][/\ \A b \in {x \in PlaylistBodies : x.tracks # NoList} :
             (Served("createPlaylist") /\ CreatePlaylist(b, "none"))
             => /\ resp'.status = 201
                /\ StoredAsGiven(playlists'[playlistSeq + 1].tracks, b.tracks)
       /\ \A p \in DOMAIN playlists : \A b \in PlaylistUpdateBodies :
             (Served("updatePlaylist") /\ UpdatePlaylist(p, b, "none"))
             => /\ resp'.status = 200
                /\ b.tracks # NoList => StoredAsGiven(playlists'[p].tracks, b.tracks)
                /\ b.tracks = NoList => playlists'[p].tracks = playlists[p].tracks
                /\ playlists'[p].updatedAt =
                      IF b.updatedAt # NoVal THEN b.updatedAt ELSE playlists[p].updatedAt]_vars

\* A PUT has stored two entries for one Track that does not exist, both
\* with order 1, and the playlist's updatedAt is still earlier than the
\* time of the request.
C26_Witness ==
    /\ resp.op = "updatePlaylist" /\ resp.status = 200
    /\ \E p \in DOMAIN playlists :
          /\ Len(playlists[p].tracks) = 2
          /\ playlists[p].tracks[1].trackId = playlists[p].tracks[2].trackId
          /\ playlists[p].tracks[1].trackId \notin DOMAIN tracks
          /\ playlists[p].tracks[1].order = 1 /\ playlists[p].tracks[2].order = 1
          /\ playlists[p].tracks[1].addedAt = now
          /\ playlists[p].updatedAt < now

---------------------------------------------------------------------------
\* The records the most-recent-playback fetch can return.
LatestPlaybacks(docs) ==
    {i \in DOMAIN docs : \A q \in DOMAIN docs : docs[i].updatedAt >= docs[q].updatedAt}

---------------------------------------------------------------------------
(* Playlists that hold several entries for one Track: add-track requests   *)
(* that spell a Track's id in uppercase pass the duplicate check of line   *)
(* 262, and remove-entry then meets more than one matching entry.          *)

MaxDupEntries == 3

NextDup ==
    \/ Ack
    \/ Ready /\ \E b \in {x \in TrackBodies : TrackValid(x)} :
          CreateTrack(b, "none") /\ trackSeq' <= MaxTracks
    \/ Ready /\ \E b \in {x \in PlaylistBodies : x.name # NoName /\ x.tracks = NoList} :
          CreatePlaylist(b, "none") /\ playlistSeq' <= MaxPlaylists
    \/ Ready /\ \E p \in PidArgs, r \in KnownRefs, f \in {"none", "savePlaylist"} :
          /\ AddTrack(p, LinkBody(r), f)
          /\ \A q \in DOMAIN playlists' : Len(playlists'[q].tracks) <= MaxDupEntries
    \/ Ready /\ \E p \in PidArgs, r \in RefArgs, f \in {"none", "savePlaylist"} :
          RemoveEntry(p, r, f)

SpecDup == Init /\ [][NextDup]_vars

(* C28: a successful remove-entry removes every entry of the playlist for  *)
(* the given track: afterwards the playlist has no entry for it, and it    *)
(* has as many entries fewer as it had for that track.                     *)
C28_RemoveTakesEveryMatch ==
    [][\A p \in DOMAIN playlists : \A r \in KnownRefs :
          (Served("removeEntry") /\ resp'.status = 200 /\ RemoveEntry(p, r, "none"))
          => /\ Count(playlists'[p].tracks, r.id) = 0
             /\ Count(playlists[p].tracks, r.id) >= 1
             /\ Len(playlists'[p].tracks) =
                   Len(playlists[p].tracks) - Count(playlists[p].tracks, r.id)]_vars

\* After a removal the playlist holds one entry, added as the third: the
\* two entries before it were for the one other Track and are both gone.
C28_Witness ==
    /\ resp.op = "removeEntry" /\ resp.status = 200
    /\ \E p \in DOMAIN playlists :
          /\ Len(playlists[p].tracks) = 1
          /\ playlists[p].tracks[1].order = 3

---------------------------------------------------------------------------
(* C29: a link-existing add-track whose Track is deleted after the         *)
(* handler found it and before the handler saves the playlist answers 201  *)
(* and appends the entry (the save is not rejected and the loaded playlist *)
(* had no entry for the Track).                                            *)
C29_LinkSurvivesTrackDelete ==
    [][\A c \in Conns :
          (/\ procs[c].pc = "resolved" /\ procs'[c].pc = "done"
           /\ procs[c].body.ref # NoRef
           /\ procs[c].oid \notin DOMAIN tracks
           /\ Count(procs[c].doc.tracks, procs[c].oid) = 0
           /\ procs'[c].status # 500)
          => /\ procs'[c].status = 201
             /\ Len(playlists'[procs[c].pid].tracks) =
                   Len(playlists[procs[c].pid].tracks) + 1
             /\ playlists'[procs[c].pid].tracks[Len(playlists'[procs[c].pid].tracks)].trackId
                   = procs[c].oid
             /\ procs[c].oid \notin DOMAIN tracks']_vars

\* A link-existing request has answered 201, its entry is the last of the
\* playlist, and no Track with the entry's trackId is stored.
C29_Witness ==
    \E c \in Conns :
        /\ procs[c].pc = "done" /\ procs[c].status = 201
        /\ procs[c].body.ref # NoRef
        /\ procs[c].oid \notin DOMAIN tracks
        /\ procs[c].pid \in DOMAIN playlists
        /\ Len(playlists[procs[c].pid].tracks) = Len(procs[c].doc.tracks) + 1
        /\ playlists[procs[c].pid].tracks[Len(playlists[procs[c].pid].tracks)].trackId
              = procs[c].oid

---------------------------------------------------------------------------
(* C30: two add-track requests for different tracks and one playlist that  *)
(* both loaded the playlist with n entries and both answered 201 have both *)
(* stored their entry with order n + 1: the playlist holds two entries     *)
(* with the same order value.                                              *)
C30_InterleavedAddsShareOrder ==
    \A a, b \in Conns :
        (/\ a # b
         /\ procs[a].pc = "done" /\ procs[b].pc = "done"
         /\ procs[a].status = 201 /\ procs[b].status = 201
         /\ procs[a].pid = procs[b].pid
         /\ procs[a].oid # procs[b].oid
         /\ Len(procs[a].doc.tracks) = Len(procs[b].doc.tracks))
        => LET es == playlists[procs[a].pid].tracks
               n == Len(procs[a].doc.tracks)
           IN  \E i, j \in 1..Len(es) :
                  /\ i # j
                  /\ es[i].trackId = procs[a].oid /\ es[i].order = n + 1
                  /\ es[j].trackId = procs[b].oid /\ es[j].order = n + 1

\* Both requests are done with 201 for different tracks, and the playlist
\* they both loaded empty holds their two entries, both with order 1.
C30_Witness ==
    /\ procs["c1"].pc = "done" /\ procs["c2"].pc = "done"
    /\ procs["c1"].status = 201 /\ procs["c2"].status = 201
    /\ procs["c1"].pid = procs["c2"].pid
    /\ procs["c1"].oid # procs["c2"].oid
    /\ procs["c1"].doc.tracks = <<>> /\ procs["c2"].doc.tracks = <<>>
    /\ Len(playlists[procs["c1"].pid].tracks) = 2
    /\ playlists[procs["c1"].pid].tracks[1].order = 1
    /\ playlists[procs["c1"].pid].tracks[2].order = 1

===========================================================================
